---- MODULE Spec2Model ----
(***************************************************************************)
(* Model of the image segmentation and layout-reconstruction core of the   *)
(* screenshot-to-HTML converter:                                           *)
(*   - image_segmentation/helper.py   (separation lines, fusion, sections) *)
(*   - bbox/helper.py                 (response parsing, nested filter)    *)
(*   - description_generation/helper.py (hierarchy, layout)                *)
(* Each subsystem has its own specification (SpecSeg, SpecFilter, ...);    *)
(* the variables of the subsystems that a specification does not run stay  *)
(* at their idle values.                                                   *)
(***************************************************************************)
EXTENDS Integers, Sequences, FiniteSets, TLC

VARIABLES
    \* ---- image_segmentation/helper.py ----
    segPc,                \* position in the segmentation run
    entry,                \* which function the caller invoked
    img_height,           \* height of the image in pixel rows
    window_size,          \* window_size parameter
    confidence_threshold, \* confidence_threshold parameter (x100)
    seg_mld,              \* min_line_distance local of enhanced_image_segmentation
    det_mld,              \* min_line_distance local of separation_line_detection
    candidate_lines,      \* detector: list of <<pos, confidence>>
    first_pass,           \* detector: selected_lines after the first greedy pass
    lines_1,              \* detector: returned final_lines
    blank_regions,        \* output of find_height_spliter
    color_regions,        \* output of color_height_spliter
    all_candidates,       \* fusion: pooled <<pos, confidence x100>>, sorted
    selected_lines,       \* fusion: returned line list
    sections,             \* get_content_sections: list of <<y_min, y_max>>
    \* ---- bbox/helper.py: filter_nested_elements ----
    filtPc,               \* position in the filter run
    components,           \* the list handed to filter_nested_elements
    filtered,             \* its result
    refiltered,           \* the result of filtering the result again
    \* ---- description_generation/helper.py: hierarchy and layout ----
    hierPc,               \* position in the heuristic description run
    input_json,           \* flat list of [bbox, label]
    image_path,           \* "none", or whether the image file given opens
    hcomponents,          \* convert_json_structure's components list
    media_tracking_map,   \* media index -> tracking entry (shared objects)
    hierarchy,            \* the returned tree: root list and node table
    \* ---- bbox/helper.py: parse_gemini_response ----
    parsePc,              \* position in the parse
    response_objs,        \* the objects the response text was written from
    response_form,        \* how the response text writes them
    response_text,        \* the response text (tokens)
    cleaned_text,         \* the local cleaned_text
    data,                 \* the parsed JSON value
    parse_tier,           \* the last tier that ran (1, 2 or 3)
    parse_outcome,        \* "running", "returned" or "raised"
    parse_result,         \* the returned standardized_data
    use_heuristic,        \* TRUE: parse_gemini_response_for_heuristic runs
    heuristic_result,     \* the value parse_gemini_response_for_heuristic returns
    \* ---- description_generation: the two usecases' execute ----
    descPc,               \* position in execute
    desc_mode,            \* "claude": DescriptionGenerationUsecase; "heuristic"
    labels_exist,         \* label_path.exists()
    desc_components,      \* the labels of the components of the labels file
    max_concurrent,       \* the parameter of execute
    semaphore,            \* the value of the asyncio.Semaphore
    task,                 \* per component task: "ready", "inside", "calling", "done"
    call_failed,          \* per component: its call to the capability failed
    external_calls,       \* calls made to the description capability
    desc_result,          \* what execute returned or raised
    answer,               \* per component: the text the capability answered
    description,          \* per component: result["description"] of its task
    raised_by,            \* the component whose task raised, or 0
    detailed_components,  \* the entries of the description file, by component
    \* ---- convert_controller: the section pipelines of one request ----
    image_files,          \* the section images of the request (indices)
    heuristic_mode,       \* use_heuristic of the request
    pipePc,               \* per section: the stage to run next, "done" or "raised"
    writes,               \* the writes so far: [by: section, target]
    stage_log,            \* per section: the stages started so far, in order
    controller_result,    \* what convert_image returned or raised
    \* ---- image_segmentation/helper.py: the border test of one column ----
    borderPc,             \* position in the border test
    upper,                \* the pixel of the row just outside the window
    window_row,           \* the pixel of the window's first (or last) row
    diff_top,             \* the difference the border test uses
    \* ---- image_segmentation_usecase.py: ImageSegmentationUsecase.execute ----
    ucPc,                 \* position in execute
    has_filename,         \* image_file.filename is not empty
    image_height,         \* height of the uploaded image
    temp_written,         \* the upload was written to temp_<filename>
    temp_exists,          \* temp_image_path.exists()
    num_sections,         \* len(sections) of the segmentation
    images_dir            \* the files in the images directory

segVars == <<segPc, entry, img_height, window_size, confidence_threshold,
             seg_mld, det_mld, candidate_lines, first_pass, lines_1,
             blank_regions, color_regions, all_candidates, selected_lines,
             sections>>

filtVars == <<filtPc, components, filtered, refiltered>>

hierVars == <<hierPc, input_json, image_path, hcomponents, media_tracking_map,
              hierarchy>>

parseVars == <<parsePc, response_objs, response_form, response_text, cleaned_text,
               data, parse_tier, parse_outcome, parse_result, use_heuristic,
               heuristic_result>>

descVars == <<descPc, desc_mode, labels_exist, desc_components, max_concurrent,
              semaphore, task, call_failed, external_calls, desc_result,
              answer, description, raised_by, detailed_components>>

pipeVars == <<image_files, heuristic_mode, pipePc, writes, stage_log,
              controller_result>>

borderVars == <<borderPc, upper, window_row, diff_top>>

usecaseVars == <<ucPc, has_filename, image_height, temp_written, temp_exists, num_sections, images_dir>>

vars == <<segVars, filtVars, hierVars, parseVars, descVars,
          pipeVars, borderVars, usecaseVars>>

nonSegVars == <<filtVars, hierVars, parseVars, descVars,
                pipeVars, borderVars, usecaseVars>>

nonFiltVars == <<segVars, hierVars, parseVars, descVars,
                 pipeVars, borderVars, usecaseVars>>

nonHierVars == <<segVars, filtVars, parseVars, descVars,
                 pipeVars, borderVars, usecaseVars>>

nonParseVars == <<segVars, filtVars, hierVars, descVars,
                  pipeVars, borderVars, usecaseVars>>

nonDescVars == <<segVars, filtVars, hierVars, parseVars,
                 pipeVars, borderVars, usecaseVars>>

nonPipeVars == <<segVars, filtVars, hierVars, parseVars,
                 descVars, borderVars, usecaseVars>>

nonBorderVars == <<segVars, filtVars, hierVars, parseVars,
                   descVars, pipeVars, usecaseVars>>

nonUsecaseVars == <<segVars, filtVars, hierVars, parseVars,
                    descVars, pipeVars, borderVars>>

(***************************************************************************)
(* Bounds of the model.                                                    *)
(***************************************************************************)
SmallHeight == 9       \* an image shorter than 20 rows (5% of it is 0 rows)
TallHeight == 39       \* an image whose 3% and 5% are at least one row
MaxScanRows == 3       \* rows visited by the detector's scan loop
MaxCands == 3          \* candidate lines one scan produces
MaxConfLevel == 2      \* distinct confidence values of detector candidates
MaxExt == 1            \* lines returned by each external detector
MaxExtPos == 4         \* external detectors report rows 1..MaxExtPos
ExplicitDistance == 2  \* the positive min_line_distance a caller passes
MaxFilterComps == 3    \* components in a list given to filter_nested_elements
MaxElems == 3          \* elements in a list given to convert_json_structure
ImagePx == 20          \* width and height in pixels of the section image
MaxObjs == 2           \* objects in a response of the vision model
NumberResponse == 5    \* a response text that is one JSON number
MaxChildren == 2       \* children of the parent given to _process_component
MaxComponents == 3     \* components in the labels file of a section
MaxConcurrent == 2     \* largest max_concurrent besides the default
DefaultMaxConcurrent == 5
MaxSections == 3       \* section images of one request
UInt8Levels == 256     \* values of a pixel of the grayscale image (uint8)
HeightThreshold == 1430 \* self.height_threshold of ImageSegmentationUsecase

(***************************************************************************)
(* Generic helpers.                                                        *)
(***************************************************************************)
Abs(x) == IF x < 0 THEN -x ELSE x

Range(s) == {s[i] : i \in 1..Len(s)}

\* list.sort() / sorted() on a list of integers
RECURSIVE InsertAsc(_, _)
InsertAsc(s, x) ==
    IF s = <<>> THEN <<x>>
    ELSE IF x < Head(s) THEN <<x>> \o s
    ELSE <<Head(s)>> \o InsertAsc(Tail(s), x)

RECURSIVE SortAsc(_)
SortAsc(s) ==
    IF s = <<>> THEN <<>>
    ELSE InsertAsc(SortAsc(SubSeq(s, 1, Len(s) - 1)), s[Len(s)])

\* the ascending list of a set of integers
RECURSIVE SeqOfSet(_)
SeqOfSet(S) ==
    IF S = {} THEN <<>>
    ELSE LET m == CHOOSE x \in S : \A y \in S : x <= y
         IN <<m>> \o SeqOfSet(S \ {m})

\* list.sort(key=lambda x: x[1], reverse=True): stable, descending confidence
RECURSIVE InsertByConf(_, _)
InsertByConf(s, c) ==
    IF s = <<>> THEN <<c>>
    ELSE IF c[2] > Head(s)[2] THEN <<c>> \o s
    ELSE <<Head(s)>> \o InsertByConf(Tail(s), c)

RECURSIVE SortByConfDesc(_)
SortByConfDesc(s) ==
    IF s = <<>> THEN <<>>
    ELSE InsertByConf(SortByConfDesc(SubSeq(s, 1, Len(s) - 1)), s[Len(s)])

\* a greedy loop that compares a candidate with the last accepted line only
RECURSIVE GreedySelectLastOnly(_, _, _)
GreedySelectLastOnly(cands, dist, acc) ==
    IF cands = <<>> THEN acc
    ELSE LET pos == Head(cands)[1]
             ok == acc = <<>> \/ Abs(pos - acc[Len(acc)]) >= dist
         IN GreedySelectLastOnly(Tail(cands), dist,
                                 IF ok THEN Append(acc, pos) ELSE acc)

\* the greedy loop: accept pos iff it is >= dist from every accepted position
RECURSIVE GreedySelect(_, _, _)
GreedySelect(cands, dist, acc) ==
    IF cands = <<>> THEN acc
    ELSE LET pos == Head(cands)[1]
             ok == \A k \in 1..Len(acc) : Abs(pos - acc[k]) >= dist
         IN GreedySelect(Tail(cands), dist, IF ok THEN Append(acc, pos) ELSE acc)

(***************************************************************************)
(* image_segmentation/helper.py                                            *)
(***************************************************************************)
\* int(img_height * 0.03)
DetectorAutoDistance(h) == (h * 3) \div 100

\* int(img_height * 0.05)
SegmenterAutoDistance(h) == (h * 5) \div 100

\* range(window_size + 1, len(img) - window_size - 1)
ScanRows(h, ws) == (ws + 1)..(h - ws - 2)

\* position of the candidate found with the window ending above row i
CandidatePos(i, ws, border_bottom) == IF border_bottom THEN i ELSE i - ws

\* first greedy pass over the confidence-sorted candidates
FirstPass(cands, dist) == SortAsc(GreedySelect(cands, dist, <<>>))

\* a retry that keeps the full distance
AdaptivePassFullDistance(cands, dist) ==
    SortAsc(GreedySelect(Tail(cands), dist, <<Head(cands)[1]>>))

\* the adaptive retry: the highest-confidence line first, half the distance
AdaptivePass(cands, dist) ==
    SortAsc(GreedySelect(Tail(cands), dist \div 2, <<Head(cands)[1]>>))

\* lines 89-135 of separation_line_detection, from the unsorted candidates
DetectorSelection(cands, dist) ==
    IF cands = <<>> THEN <<>>
    ELSE LET sorted == SortByConfDesc(cands)
             first == FirstPass(sorted, dist)
         IN IF Len(first) >= 3 THEN first ELSE AdaptivePass(sorted, dist)

\* confidence (x100) of a blank-region line
BlankConfidence(line, l1, dist) ==
    IF \E k \in 1..Len(l1) : 2 * Abs(line - l1[k]) < dist THEN 90 ELSE 70

\* confidence (x100) of a color-transition line
ColorConfidence(line, l1, blanks, dist) ==
    IF \E k \in 1..Len(l1) : 2 * Abs(line - l1[k]) < dist THEN 90
    ELSE IF \E k \in 1..Len(blanks) : 2 * Abs(line - blanks[k]) < dist THEN 75
    ELSE 60

\* stage 2: the pooled candidates in the order the code appends them
PoolCandidates(l1, blanks, colors, dist) ==
    [k \in 1..Len(l1) |-> <<l1[k], 80>>]
    \o [k \in 1..Len(blanks) |-> <<blanks[k], BlankConfidence(blanks[k], l1, dist)>>]
    \o [k \in 1..Len(colors) |->
            <<colors[k], ColorConfidence(colors[k], l1, blanks, dist)>>]

\* a pool from which nothing is discarded
WithoutThreshold(cands, thr) == cands

\* candidates whose confidence passes the threshold, order kept
RECURSIVE AboveThreshold(_, _)
AboveThreshold(cands, thr) ==
    IF cands = <<>> THEN <<>>
    ELSE IF Head(cands)[2] < thr THEN AboveThreshold(Tail(cands), thr)
    ELSE <<Head(cands)>> \o AboveThreshold(Tail(cands), thr)

\* stage 3: greedy selection over the sorted pool, then sort by position
FuseSelection(sorted, thr, dist) ==
    SortAsc(GreedySelect(AboveThreshold(sorted, thr), dist, <<>>))

\* get_content_sections without the leading 0 boundary
SectionsNoTop(lines, h) ==
    LET b == lines \o <<h>>
    IN [k \in 1..(Len(b) - 1) |-> <<b[k], b[k + 1]>>]

\* get_content_sections: adjacent pairs of [0] + lines + [img_height]
get_content_sections(lines, h) ==
    LET all_boundaries == <<0>> \o lines \o <<h>>
    IN [k \in 1..(Len(all_boundaries) - 1) |->
            <<all_boundaries[k], all_boundaries[k + 1]>>]

\* ---- inputs ----
Heights == {SmallHeight, TallHeight}

\* the widest window that leaves MaxScanRows rows (or one fewer) to scan
WindowFor(h) == (h - 2 - MaxScanRows + 1) \div 2

CallerDistances == {0, ExplicitDistance}

ConfLevels == 1..MaxConfLevel

Thresholds == {60, 80}

\* candidate lists a scan can produce: rows ascending, one candidate per row
ScanOutcomes(h, ws) ==
    {[k \in 1..Len(SeqOfSet(rows)) |->
        <<CandidatePos(SeqOfSet(rows)[k], ws, bb[SeqOfSet(rows)[k]]),
          cf[SeqOfSet(rows)[k]]>>] :
        rows \in {R \in SUBSET ScanRows(h, ws) : Cardinality(R) <= MaxCands},
        bb \in [ScanRows(h, ws) -> BOOLEAN],
        cf \in [ScanRows(h, ws) -> ConfLevels]}

\* outputs of an external detector: ascending rows inside the image
ExternalOutcomes(h) ==
    {SeqOfSet(R) : R \in {Q \in SUBSET (1..MaxExtPos) :
                             Cardinality(Q) <= MaxExt /\ \A p \in Q : p < h}}

SegIdle ==
    /\ segPc = "idle"
    /\ entry = "none"
    /\ img_height = 0
    /\ window_size = 0
    /\ confidence_threshold = 0
    /\ seg_mld = 0
    /\ det_mld = 0
    /\ candidate_lines = <<>>
    /\ first_pass = <<>>
    /\ lines_1 = <<>>
    /\ blank_regions = <<>>
    /\ color_regions = <<>>
    /\ all_candidates = <<>>
    /\ selected_lines = <<>>
    /\ sections = <<>>

\* a caller invokes enhanced_image_segmentation or separation_line_detection
SegInit ==
    /\ entry \in {"segmenter", "detector"}
    /\ img_height \in Heights
    /\ window_size = WindowFor(img_height)
    /\ confidence_threshold \in (IF entry = "segmenter" THEN Thresholds ELSE {0})
    /\ seg_mld \in (IF entry = "segmenter" THEN CallerDistances ELSE {0})
    /\ det_mld \in (IF entry = "detector" THEN CallerDistances ELSE {0})
    /\ segPc = (IF entry = "segmenter" THEN "seg_start" ELSE "det_start")
    /\ candidate_lines = <<>>
    /\ first_pass = <<>>
    /\ lines_1 = <<>>
    /\ blank_regions = <<>>
    /\ color_regions = <<>>
    /\ all_candidates = <<>>
    /\ selected_lines = <<>>
    /\ sections = <<>>

\* enhanced_image_segmentation, lines 163-183: derive the distance, call the detector
SegmenterStart ==
    /\ segPc = "seg_start"
    /\ seg_mld' = (IF seg_mld <= 0 THEN SegmenterAutoDistance(img_height) ELSE seg_mld)
    /\ det_mld' = seg_mld'
    /\ segPc' = "det_start"
    /\ UNCHANGED nonSegVars
    /\ UNCHANGED <<entry, img_height, window_size, confidence_threshold,
                   candidate_lines, first_pass, lines_1, blank_regions,
                   color_regions, all_candidates, selected_lines, sections>>

\* separation_line_detection, lines 33-39
DetectorStart ==
    /\ segPc = "det_start"
    /\ det_mld' = (IF det_mld <= 0 THEN DetectorAutoDistance(img_height) ELSE det_mld)
    /\ segPc' = "det_scan"
    /\ UNCHANGED nonSegVars
    /\ UNCHANGED <<entry, img_height, window_size, confidence_threshold, seg_mld,
                   candidate_lines, first_pass, lines_1, blank_regions,
                   color_regions, all_candidates, selected_lines, sections>>

\* separation_line_detection, lines 41-87: the scan loop over the rows
DetectorScan ==
    /\ segPc = "det_scan"
    /\ candidate_lines' \in ScanOutcomes(img_height, window_size)
    /\ segPc' = "det_select"
    /\ UNCHANGED nonSegVars
    /\ UNCHANGED <<entry, img_height, window_size, confidence_threshold, seg_mld,
                   det_mld, first_pass, lines_1, blank_regions, color_regions,
                   all_candidates, selected_lines, sections>>

\* separation_line_detection, lines 89-135: sort, greedy pass, adaptive retry
DetectorSelect ==
    /\ segPc = "det_select"
    /\ candidate_lines' = SortByConfDesc(candidate_lines)
    /\ first_pass' = FirstPass(candidate_lines', det_mld)
    /\ lines_1' = DetectorSelection(candidate_lines, det_mld)
    /\ segPc' = (IF entry = "detector" THEN "done" ELSE "signals")
    /\ UNCHANGED nonSegVars
    /\ UNCHANGED <<entry, img_height, window_size, confidence_threshold, seg_mld,
                   det_mld, blank_regions, color_regions, all_candidates,
                   selected_lines, sections>>

\* enhanced_image_segmentation, lines 187-191: the detector has returned (its
\* locals are gone) and the two external detectors run
SegmenterSignals ==
    /\ segPc = "signals"
    /\ blank_regions' \in ExternalOutcomes(img_height)
    /\ color_regions' \in ExternalOutcomes(img_height)
    /\ candidate_lines' = <<>>
    /\ first_pass' = <<>>
    /\ segPc' = "fuse"
    /\ UNCHANGED nonSegVars
    /\ UNCHANGED <<entry, img_height, window_size, confidence_threshold, seg_mld,
                   det_mld, lines_1, all_candidates, selected_lines, sections>>

\* enhanced_image_segmentation, lines 193-248: pool, sort, threshold, greedy, sort
SegmenterFuse ==
    /\ segPc = "fuse"
    /\ all_candidates' =
           SortByConfDesc(PoolCandidates(lines_1, blank_regions, color_regions, seg_mld))
    /\ selected_lines' = FuseSelection(all_candidates', confidence_threshold, seg_mld)
    /\ segPc' = "sections"
    /\ UNCHANGED nonSegVars
    /\ UNCHANGED <<entry, img_height, window_size, confidence_threshold, seg_mld,
                   det_mld, candidate_lines, first_pass, lines_1, blank_regions,
                   color_regions, sections>>

\* enhanced_image_segmentation, lines 250-253, calling get_content_sections
SegmenterSections ==
    /\ segPc = "sections"
    /\ sections' = get_content_sections(selected_lines, img_height)
    /\ segPc' = "done"
    /\ UNCHANGED nonSegVars
    /\ UNCHANGED <<entry, img_height, window_size, confidence_threshold, seg_mld,
                   det_mld, candidate_lines, first_pass, lines_1, blank_regions,
                   color_regions, all_candidates, selected_lines>>

SegNext ==
    \/ SegmenterStart
    \/ DetectorStart
    \/ DetectorScan
    \/ DetectorSelect
    \/ SegmenterSignals
    \/ SegmenterFuse
    \/ SegmenterSections


(***************************************************************************)
(* image_segmentation/helper.py, lines 33 and 56-67: the per-column         *)
(* difference of the border test.  The image is an array of uint8.         *)
(***************************************************************************)
PixelValues == 0..(UInt8Levels - 1)

\* uint8 - uint8 on numpy arrays: the result is uint8 and wraps
UInt8Subtract(a, b) == (a - b) % UInt8Levels

\* np.abs of a uint8 value: unsigned, so unchanged
UInt8Abs(a) == a

BorderIdle ==
    /\ borderPc = "idle"
    /\ upper = 0
    /\ window_row = 0
    /\ diff_top = 0

BorderInit ==
    /\ borderPc = "start"
    /\ upper \in PixelValues
    /\ window_row \in PixelValues
    /\ diff_top = 0

\* line 56 (and line 62 for lower and window[-1]): np.abs(upper - window[0])
BorderDifference ==
    /\ borderPc = "start"
    /\ diff_top' = UInt8Abs(UInt8Subtract(upper, window_row))
    /\ borderPc' = "done"
    /\ UNCHANGED <<upper, window_row>>
    /\ UNCHANGED nonBorderVars

BorderNext == BorderDifference

\* C25: for every pair of 8-bit pixel values, the per-column difference used
\* by the border test equals the absolute intensity difference |a - b|, also
\* when a < b.
C25_AbsoluteDifference ==
    borderPc = "done" => diff_top = Abs(upper - window_row)

(***************************************************************************)
(* image_segmentation_usecase.py: ImageSegmentationUsecase.execute.  Every  *)
(* step inside the try block either succeeds or raises; what is raised     *)
(* goes to the except clause of line 128.                                  *)
(***************************************************************************)
\* images_dir / file_name
OriginalCopy == [kind |-> "copy", index |-> 0]

\* images_dir / temp_<name>_section_<i>.png
SectionImage(i) == [kind |-> "section", index |-> i]

UploadHeights ==
    {1, HeightThreshold - 1, HeightThreshold, HeightThreshold + 1, 2 * HeightThreshold}

\* an except clause that leaves the temporary file
KeepTemp(exists) == exists

\* lines 124-125 and 130-131: if temp_image_path.exists(): unlink()
UnlinkTemp(exists) == FALSE

UsecaseIdle ==
    /\ ucPc = "idle"
    /\ has_filename = FALSE
    /\ image_height = 0
    /\ temp_written = FALSE
    /\ temp_exists = FALSE
    /\ num_sections = 0
    /\ images_dir = {}

UsecaseInit ==
    /\ ucPc = "write_temp"
    /\ has_filename \in BOOLEAN
    /\ image_height \in UploadHeights
    /\ temp_written = FALSE
    /\ temp_exists = FALSE
    /\ num_sections = 0
    /\ images_dir = {}

\* lines 41-63: the directories are made, the upload is read and written to
\* temp_<file_name>; reading raises before the file is there
WriteTemp ==
    /\ ucPc = "write_temp"
    /\ \/ /\ temp_written' = TRUE
          /\ temp_exists' = TRUE
          /\ ucPc' = "open"
       \/ /\ UNCHANGED <<temp_written, temp_exists>>
          /\ ucPc' = "except"
    /\ UNCHANGED <<has_filename, image_height, num_sections, images_dir>>
    /\ UNCHANGED nonUsecaseVars

\* lines 65-78: the image is opened for its size (raises when the upload is
\* no image) and compared with the threshold
OpenImage ==
    /\ ucPc = "open"
    /\ \/ ucPc' = (IF image_height > HeightThreshold THEN "segment" ELSE "copy")
       \/ ucPc' = "except"
    /\ UNCHANGED <<has_filename, image_height, temp_written, temp_exists,
                   num_sections, images_dir>>
    /\ UNCHANGED nonUsecaseVars

\* lines 81-89: enhanced_image_segmentation; get_content_sections gives one
\* section more than there are lines
Segment ==
    /\ ucPc = "segment"
    /\ \/ /\ num_sections' \in 1..MaxSections
          /\ ucPc' = "split"
       \/ /\ num_sections' = num_sections
          /\ ucPc' = "except"
    /\ UNCHANGED <<has_filename, image_height, temp_written, temp_exists, images_dir>>
    /\ UNCHANGED nonUsecaseVars

\* helper.py 348-361, one turn of the loop of split_image_into_sections: the
\* next section is cropped and saved, or the save raises
SplitSection ==
    /\ ucPc = "split"
    /\ Cardinality(images_dir) < num_sections
    /\ \/ /\ images_dir' = images_dir \cup {SectionImage(Cardinality(images_dir) + 1)}
          /\ ucPc' = "split"
       \/ /\ images_dir' = images_dir
          /\ ucPc' = "except"
    /\ UNCHANGED <<has_filename, image_height, temp_written, temp_exists, num_sections>>
    /\ UNCHANGED nonUsecaseVars

\* lines 95-110 and 124-127: every section is saved; sections_info is not
\* empty, the temporary file is removed and the result returned
SplitReturn ==
    /\ ucPc = "split"
    /\ Cardinality(images_dir) = num_sections
    /\ temp_exists' = (IF temp_exists THEN UnlinkTemp(temp_exists) ELSE temp_exists)
    /\ ucPc' = "returned"
    /\ UNCHANGED <<has_filename, image_height, temp_written, num_sections, images_dir>>
    /\ UNCHANGED nonUsecaseVars

\* lines 117-127: the upload is copied to images_dir / file_name (or the
\* copy raises), the temporary file is removed and the result returned
CopyReturn ==
    /\ ucPc = "copy"
    /\ \/ /\ images_dir' = images_dir \cup {OriginalCopy}
          /\ temp_exists' = (IF temp_exists THEN UnlinkTemp(temp_exists) ELSE temp_exists)
          /\ ucPc' = "returned"
       \/ /\ UNCHANGED <<images_dir, temp_exists>>
          /\ ucPc' = "except"
    /\ UNCHANGED <<has_filename, image_height, temp_written, num_sections>>
    /\ UNCHANGED nonUsecaseVars

\* lines 128-142: the except clause removes the temporary file when it
\* exists and raises JsonResponseError
ExceptClause ==
    /\ ucPc = "except"
    /\ temp_exists' = (IF temp_exists THEN UnlinkTemp(temp_exists) ELSE temp_exists)
    /\ ucPc' = "raised"
    /\ UNCHANGED <<has_filename, image_height, temp_written, num_sections, images_dir>>
    /\ UNCHANGED nonUsecaseVars

UsecaseNext ==
    \/ WriteTemp
    \/ OpenImage
    \/ Segment
    \/ SplitSection
    \/ SplitReturn
    \/ CopyReturn
    \/ ExceptClause

\* C30: whenever ImageSegmentationUsecase.execute ends, by returning or by
\* raising JsonResponseError after the upload was written to disk, the
\* temporary file no longer exists; on a return the images directory holds
\* the section files when the height is above 1430 and one copy of the
\* original image otherwise.
C30_TempFileRemoved ==
    /\ (ucPc \in {"returned", "raised"} /\ temp_written) => ~temp_exists
    /\ ucPc = "returned" =>
           IF image_height > HeightThreshold
           THEN /\ num_sections >= 1
                /\ images_dir = {SectionImage(i) : i \in 1..num_sections}
           ELSE images_dir = {OriginalCopy}

\* execute raised after the upload was written and a section file saved
C30_Witness ==
    /\ ucPc = "raised"
    /\ temp_written
    /\ ~temp_exists
    /\ \E f \in images_dir : f.kind = "section"

(***************************************************************************)
(* Claims about the segmentation.                                          *)
(***************************************************************************)
SegmenterDone == segPc = "done" /\ entry = "segmenter"

\* the detector has returned final_lines and its locals are still in scope
DetectorReturned ==
    \/ segPc = "signals"
    \/ segPc = "done" /\ entry = "detector"

PairwiseApart(lines, dist) ==
    \A k, m \in 1..Len(lines) : k < m => Abs(lines[k] - lines[m]) >= dist

\* C1: the sections returned by get_content_sections for the fused line list
\* are contiguous: the first starts at 0, the last ends at the image height,
\* each section's y_max is the next section's y_min, and there is one more
\* section than there are lines.
C1_SectionsContiguous ==
    SegmenterDone =>
        /\ Len(sections) = Len(selected_lines) + 1
        /\ sections[1][1] = 0
        /\ sections[Len(sections)][2] = img_height
        /\ \A k \in 1..(Len(sections) - 1) : sections[k][2] = sections[k + 1][1]

\* C1 witness: a finished segmentation with at least two cut lines.
C1_Witness == SegmenterDone /\ Len(selected_lines) >= 2 /\ Len(sections) >= 3

\* C2: the cut-line list returned by enhanced_image_segmentation is strictly
\* increasing, every line lies strictly between 0 and the image height, and
\* every derived section has y_min < y_max.
C2_LinesStrictlyIncreasing ==
    SegmenterDone =>
        /\ \A k \in 1..(Len(selected_lines) - 1) :
               selected_lines[k] < selected_lines[k + 1]
        /\ \A k \in 1..Len(selected_lines) :
               0 < selected_lines[k] /\ selected_lines[k] < img_height
        /\ \A k \in 1..Len(sections) : sections[k][1] < sections[k][2]

SelectedPositions == {selected_lines[k] : k \in 1..Len(selected_lines)}

\* the pooled candidates that pass the threshold
Eligible ==
    {k \in 1..Len(all_candidates) : all_candidates[k][2] >= confidence_threshold}

\* C23: the fused line list is the greedy selection by descending
\* confidence: every selected line is the position of a pooled candidate
\* whose confidence is at least confidence_threshold, any two selected lines
\* are at least min_line_distance apart, every pooled candidate that passes
\* the threshold and was not selected lies closer than min_line_distance to a
\* selected line of equal or higher confidence, and the list is in ascending
\* order of position.
C23_FusionIsGreedy ==
    SegmenterDone =>
        /\ \A k \in 1..Len(selected_lines) :
               \E c \in Eligible : all_candidates[c][1] = selected_lines[k]
        /\ PairwiseApart(selected_lines, seg_mld)
        /\ \A c \in Eligible :
               \/ all_candidates[c][1] \in SelectedPositions
               \/ \E d \in Eligible :
                      /\ all_candidates[d][1] \in SelectedPositions
                      /\ Abs(all_candidates[c][1] - all_candidates[d][1]) < seg_mld
                      /\ all_candidates[d][2] >= all_candidates[c][2]
        /\ \A k \in 1..(Len(selected_lines) - 1) :
               selected_lines[k] <= selected_lines[k + 1]

\* a fusion that kept two lines, dropped a candidate below the threshold
\* and dropped an eligible candidate that was too close to a stronger line
C23_Witness ==
    /\ SegmenterDone
    /\ seg_mld >= 1
    /\ Len(selected_lines) >= 2
    /\ \E k \in 1..Len(all_candidates) : k \notin Eligible
    /\ \E c \in Eligible : all_candidates[c][1] \notin SelectedPositions

\* lines is what a greedy pass over the confidence-sorted candidates keeps
\* under the distance dist: its lines are candidates at least dist apart,
\* and every candidate it left out is closer than dist to a kept line that
\* the order puts at the same place or earlier
GreedyOver(lines, cands, dist) ==
    LET kept == {lines[k] : k \in 1..Len(lines)}
    IN  /\ \A k \in 1..Len(lines) : \E c \in 1..Len(cands) : cands[c][1] = lines[k]
        /\ PairwiseApart(lines, dist)
        /\ \A c \in 1..Len(cands) :
               \/ cands[c][1] \in kept
               \/ \E d \in 1..(c - 1) :
                      /\ cands[d][1] \in kept
                      /\ Abs(cands[c][1] - cands[d][1]) < dist
                      /\ cands[d][2] >= cands[c][2]

\* C24: when the first greedy pass of separation_line_detection accepts at
\* least 3 lines the result is that pass's selection; when it accepts fewer
\* the result is the greedy selection over the same order with the distance
\* floor(min_line_distance / 2), the highest-confidence candidate first; in
\* both cases the highest-confidence candidate is in the result and the
\* result is in ascending order; without candidates the result is empty.
C24_AdaptivePass ==
    DetectorReturned =>
        IF candidate_lines = <<>> THEN lines_1 = <<>>
        ELSE /\ GreedyOver(first_pass, candidate_lines, det_mld)
             /\ Len(first_pass) >= 3 => lines_1 = first_pass
             /\ Len(first_pass) < 3 =>
                    GreedyOver(lines_1, candidate_lines, det_mld \div 2)
             /\ \E k \in 1..Len(lines_1) : lines_1[k] = candidate_lines[1][1]
             /\ \A c \in 1..Len(candidate_lines) :
                    candidate_lines[1][2] >= candidate_lines[c][2]
             /\ \A k \in 1..(Len(lines_1) - 1) : lines_1[k] <= lines_1[k + 1]

\* the first pass kept fewer than 3 of 3 candidates and the retry kept more
C24_Witness ==
    /\ DetectorReturned
    /\ Len(candidate_lines) = 3
    /\ Len(first_pass) < 3
    /\ Len(lines_1) > Len(first_pass)

\* the first pass kept 3 lines under a positive distance
C24_FirstPassWitness ==
    /\ DetectorReturned
    /\ det_mld >= 1
    /\ Len(first_pass) >= 3

(***************************************************************************)
(* bbox/helper.py: filter_nested_elements                                  *)
(* A label is a sequence of word tokens ("div", "_", "1"); a box is        *)
(* box_percent times 10, <<x_min, y_min, x_max, y_max>>, so the margin of  *)
(* 0.5 is 5.                                                               *)
(***************************************************************************)
parent_elements == {"div", "header", "footer", "sidebar", "navbar", "search-bar", "form"}

\* str.lower() on one token
LowerToken(t) ==
    CASE t = "Div" -> "div"
      [] t = "Header" -> "header"
      [] t = "Image" -> "image"
      [] t = "Icon" -> "icon"
      [] OTHER -> t

\* label.lower()
LowerLabel(label) == [k \in 1..Len(label) |-> LowerToken(label[k])]

\* label == parent or label.startswith(parent + '_'), for some parent
IsParentLabel(label) ==
    LET l == LowerLabel(label)
    IN \E parent \in parent_elements :
           \/ l = <<parent>>
           \/ Len(l) >= 2 /\ l[1] = parent /\ l[2] = "_"

\* 'image' in label
IsImageLabel(label) ==
    LET l == LowerLabel(label) IN \E k \in 1..Len(l) : l[k] = "image"

\* pairs (a, b) of tenths with a = b - 5 for which the float test
\* a/10 >= b/10 - 0.5 is false (b/10 - 0.5 rounds above a/10)
RoundedAboveMargin ==
    {<<3, 8>>, <<6, 11>>, <<17, 22>>, <<39, 44>>, <<78, 83>>, <<156, 161>>,
     <<317, 322>>, <<639, 644>>}

\* box[k] >= parent_box[k] - margin
LowWithinMargin(a, b) == a >= b - 5 /\ <<a, b>> \notin RoundedAboveMargin

\* box[k] <= parent_box[k] + margin
HighWithinMargin(a, b) == a <= b + 5

\* the condition of lines 310-313: inside the parent box and not identical to it
NestedIn(box, parent_box) ==
    /\ LowWithinMargin(box[1], parent_box[1])
    /\ HighWithinMargin(box[3], parent_box[3])
    /\ LowWithinMargin(box[2], parent_box[2])
    /\ HighWithinMargin(box[4], parent_box[4])
    /\ \/ box[1] # parent_box[1]
       \/ box[2] # parent_box[2]
       \/ box[3] # parent_box[3]
       \/ box[4] # parent_box[4]

\* parent_boxes: the indices of the parent-class components
ParentBoxes(comps) == {j \in 1..Len(comps) : IsParentLabel(comps[j].label)}

\* a loop without the break, in which the last parent box examined decides
ShouldKeepLastDecides(comps, i) ==
    IF IsImageLabel(comps[i].label) THEN TRUE
    ELSE LET others == {j \in ParentBoxes(comps) : comps[j] # comps[i]}
         IN IF others = {} THEN TRUE
            ELSE LET last == CHOOSE j \in others : \A m \in others : m <= j
                 IN ~NestedIn(comps[i].box, comps[last].box)

\* the body of the second loop (lines 292-321) for component i
ShouldKeep(comps, i) ==
    IF IsImageLabel(comps[i].label) THEN TRUE
    ELSE ~\E j \in ParentBoxes(comps) :
             /\ comps[j] # comps[i]
             /\ NestedIn(comps[i].box, comps[j].box)

\* the subsequence of s at the indices in keep
RECURSIVE SubSeqAt(_, _, _)
SubSeqAt(s, keep, k) ==
    IF k > Len(s) THEN <<>>
    ELSE (IF k \in keep THEN <<s[k]>> ELSE <<>>) \o SubSeqAt(s, keep, k + 1)

filter_nested_elements(comps) ==
    SubSeqAt(comps, {i \in 1..Len(comps) : ShouldKeep(comps, i)}, 1)

\* ---- inputs ----
FilterLabels ==
    {<<"div">>, <<"Header", "_", "1">>, <<"button">>, <<"hero", "-", "image">>}

FilterBoxes ==
    {<<8, 8, 40, 40>>,      \* a container
     <<4, 8, 40, 40>>,      \* sticks out of it by less than the margin
     <<3, 8, 40, 40>>,      \* sticks out of it by exactly the margin
     <<10, 10, 20, 20>>}    \* well inside all of them

FilterComps == [label : FilterLabels, box : FilterBoxes]

FiltIdle ==
    /\ filtPc = "idle"
    /\ components = <<>>
    /\ filtered = <<>>
    /\ refiltered = <<>>

FiltInit ==
    /\ filtPc = "start"
    /\ components \in UNION {[1..n -> FilterComps] : n \in 0..MaxFilterComps}
    /\ filtered = <<>>
    /\ refiltered = <<>>

\* BboxUsecase.execute, line 46: the parsed components are filtered
FilterOnce ==
    /\ filtPc = "start"
    /\ filtered' = filter_nested_elements(components)
    /\ filtPc' = "once"
    /\ UNCHANGED <<components, refiltered>>
    /\ UNCHANGED nonFiltVars

\* the filter applied to its own output
FilterAgain ==
    /\ filtPc = "once"
    /\ refiltered' = filter_nested_elements(filtered)
    /\ filtPc' = "twice"
    /\ UNCHANGED <<components, filtered>>
    /\ UNCHANGED nonFiltVars

FiltNext == FilterOnce \/ FilterAgain

(***************************************************************************)
(* Claims about filter_nested_elements.                                    *)
(***************************************************************************)
\* C7: filter_nested_elements is idempotent: applied to its own output it
\* returns exactly that output (same components, same order).
C7_FilterIdempotent == filtPc = "twice" => refiltered = filtered

\* C7 witness: a run in which the first pass discarded a component and kept
\* at least two, and the second pass has run on that output.
C7_Witness ==
    /\ filtPc = "twice"
    /\ Len(filtered) < Len(components)
    /\ Len(filtered) >= 2
    /\ refiltered = filtered

\* what C8 says the filter discards
ClaimedDiscard(comps, i) ==
    /\ ~IsParentLabel(comps[i].label)
    /\ ~IsImageLabel(comps[i].label)
    /\ \E j \in ParentBoxes(comps) : NestedIn(comps[i].box, comps[j].box)

\* C8: filter_nested_elements discards a component if and only if it is a
\* non-parent-class, non-image component whose box lies within the margin
\* inside some parent-class box and is not identical to it; parent-class
\* components and image components are always retained.
C8_DiscardsExactlyNestedNonParents ==
    filtPc = "once" =>
        filtered = SubSeqAt(components,
                            {i \in 1..Len(components) : ~ClaimedDiscard(components, i)}, 1)

(***************************************************************************)
(* description_generation/helper.py: convert_json_structure and            *)
(* process_component_structure.                                            *)
(* A bbox is <<y_min, x_min, y_max, x_max>> in the 0..1000 space; indices  *)
(* are 1-based and 0 stands for None.  The nested dicts of the result are  *)
(* kept as a node table indexed by component index plus the list of roots; *)
(* a tracking entry is one object shared by every media list that holds    *)
(* it, so the entries are kept per media index.                            *)
(***************************************************************************)
media_labels == {"image", "logo", "icon"}

IsMediaLabel(label) == LowerToken(label) \in media_labels

\* _is_contained_within, margin = 5
is_contained_within(child_box, parent_box) ==
    /\ parent_box[1] - 5 <= child_box[1]
    /\ parent_box[2] - 5 <= child_box[2]
    /\ parent_box[3] + 5 >= child_box[3]
    /\ parent_box[4] + 5 >= child_box[4]

calculate_area(box) == (box[3] - box[1]) * (box[4] - box[2])

\* the components whose box contains element i
PotentialParents(i, elements) ==
    {j \in 1..Len(elements) :
        j # i /\ is_contained_within(elements[i].bbox, elements[j].bbox)}

\* a choice of the largest container
find_largest_parent_index(i, elements) ==
    LET pp == PotentialParents(i, elements)
    IN IF pp = {} THEN 0
       ELSE CHOOSE j \in pp : \A k \in pp :
                \/ calculate_area(elements[j].bbox) > calculate_area(elements[k].bbox)
                \/ /\ calculate_area(elements[j].bbox) = calculate_area(elements[k].bbox)
                   /\ j <= k

\* _find_parent_index: min() keeps the first of the smallest containers
find_parent_index(i, elements) ==
    LET pp == PotentialParents(i, elements)
    IN IF pp = {} THEN 0
       ELSE CHOOSE j \in pp : \A k \in pp :
                \/ calculate_area(elements[j].bbox) < calculate_area(elements[k].bbox)
                \/ /\ calculate_area(elements[j].bbox) = calculate_area(elements[k].bbox)
                   /\ j <= k

\* steps 1 and 2 of convert_json_structure
LinkParents(elements) ==
    LET parent == [i \in 1..Len(elements) |-> find_parent_index(i, elements)]
    IN [i \in 1..Len(elements) |->
           [id |-> i,
            parent_index |-> parent[i],
            children_indices |-> SeqOfSet({c \in 1..Len(elements) : parent[c] = i}),
            media_indices |-> <<>>]]

\* max(0, min(int(v * size / 1000), size - 1))
ToPixel(v, size) ==
    LET px == (v * size) \div 1000
        low == IF px < size - 1 THEN px ELSE size - 1
    IN IF low > 0 THEN low ELSE 0

\* line 324: the clamped pixel crop is empty
DegenerateCrop(bbox, width, height) ==
    \/ ToPixel(bbox[2], width) >= ToPixel(bbox[4], width)
    \/ ToPixel(bbox[1], height) >= ToPixel(bbox[3], height)

\* the media elements that step 3 registers in media_tracking_map: all of
\* them without an image path (lines 368-391); those with a non-empty crop
\* with one (lines 304-363); none when Image.open raises (lines 365-366)
TrackedMedia(elements, path, width, height) ==
    {m \in 1..Len(elements) :
        /\ IsMediaLabel(elements[m].label)
        /\ path # "unreadable"
        /\ path = "readable" => ~DegenerateCrop(elements[m].bbox, width, height)}

NoRecord == [present |-> FALSE]

TrackingEntry(element) ==
    [original_label |-> element.label,
     coordinates |-> [y_min |-> element.bbox[1], x_min |-> element.bbox[2],
                      y_max |-> element.bbox[3], x_max |-> element.bbox[4]],
     type |-> LowerToken(element.label),
     styles |-> NoRecord,
     layout |-> NoRecord]

\* step 3: media_indices of every parent of a tracked media element
RegisterMedia(comps, tracked) ==
    [i \in 1..Len(comps) |->
        [comps[i] EXCEPT !.media_indices =
            SeqOfSet({m \in tracked : comps[m].parent_index = i})]]

\* _build_component_structure: the children that are built as nodes
NodeChildren(comps, i) ==
    SelectSeq(comps[i].children_indices,
              LAMBDA c : c \notin Range(comps[i].media_indices))

\* _build_component_structure: media_list
NodeMedia(comps, tracked, i) ==
    (IF i \in tracked THEN <<i>> ELSE <<>>)
    \o SelectSeq(comps[i].media_indices, LAMBDA m : m \in tracked)

RootIndices(comps) == SeqOfSet({i \in 1..Len(comps) : comps[i].parent_index = 0})

\* the components the recursion from the roots reaches
RECURSIVE BuiltFrom(_, _, _)
BuiltFrom(comps, frontier, seen) ==
    IF frontier = {} THEN seen
    ELSE BuiltFrom(comps,
                   UNION {Range(NodeChildren(comps, i)) : i \in frontier}
                       \ (seen \cup frontier),
                   seen \cup frontier)

\* step 4: the returned structure
BuildHierarchy(elements, comps, tracked) ==
    [roots |-> RootIndices(comps),
     nodes |-> [i \in BuiltFrom(comps, Range(RootIndices(comps)), {}) |->
                   [id |-> i,
                    type |-> elements[i].label,
                    coordinates |-> [y1 |-> elements[i].bbox[1],
                                     x1 |-> elements[i].bbox[2],
                                     y2 |-> elements[i].bbox[3],
                                     x2 |-> elements[i].bbox[4]],
                    media |-> NodeMedia(comps, tracked, i),
                    children |-> NodeChildren(comps, i),
                    styles |-> NoRecord,
                    layout |-> NoRecord]]]

\* n / d rounded to the nearest integer, exact halves to the even one
RoundNearest(n, d) ==
    LET nn == IF d < 0 THEN -n ELSE n
        dd == IF d < 0 THEN -d ELSE d
        q == nn \div dd
        r == nn % dd
    IN IF 2 * r < dd THEN q
       ELSE IF 2 * r > dd THEN q + 1
       ELSE IF q % 2 = 0 THEN q ELSE q + 1

\* a percentage of the viewport's extent (1000) in place of the parent's
PercentOfViewport(v, d) == IF d = 0 THEN 0 ELSE RoundNearest(v * 10000, 1000)

\* round(v / d * 100, 2) if d else 0, in hundredths of a percent
Percent(v, d) == IF d = 0 THEN 0 ELSE RoundNearest(v * 10000, d)

viewport == [y1 |-> 0, x1 |-> 0, y2 |-> 1000, x2 |-> 1000]

absolute_components ==
    {"modal", "tooltip", "dropdown", "popup", "overlay", "dialog", "menu"}

absolute_container_parents ==
    {"card", "container", "section", "article", "main", "div", "header", "footer"}

\* the rectangle test of _has_overlap_with_siblings
BoxesOverlap(a, b) ==
    /\ a.x1 < b.x2 /\ a.x2 > b.x1
    /\ a.y1 < b.y2 /\ a.y2 > b.y1

has_overlap_with_siblings(nodes, c, p) ==
    \E s \in Range(nodes[p].children) :
        s # c /\ BoxesOverlap(nodes[c].coordinates, nodes[s].coordinates)

\* a positioning without the rule for overlay component types
PositioningWithoutTypeRule(nodes, c, p) ==
    IF has_overlap_with_siblings(nodes, c, p) THEN "absolute"
    ELSE IF LowerToken(nodes[p].type) \in absolute_container_parents
         THEN (IF Len(nodes[p].children) <= 1 THEN "relative" ELSE "absolute")
    ELSE "relative"

\* a positioning that does not count the children of a container parent
PositioningWithoutChildCount(nodes, c, p) ==
    IF has_overlap_with_siblings(nodes, c, p) THEN "absolute"
    ELSE IF LowerToken(nodes[c].type) \in absolute_components THEN "absolute"
    ELSE IF LowerToken(nodes[p].type) \in absolute_container_parents THEN "absolute"
    ELSE "relative"

\* _determine_positioning
determine_positioning(nodes, c, p) ==
    IF has_overlap_with_siblings(nodes, c, p) THEN "absolute"
    ELSE IF LowerToken(nodes[c].type) \in absolute_components THEN "absolute"
    ELSE IF LowerToken(nodes[p].type) \in absolute_container_parents
         THEN (IF Len(nodes[p].children) <= 1 THEN "relative" ELSE "absolute")
    ELSE "relative"

\* the styles record _process_component adds when there is none
ComponentStyles(coords) ==
    [present |-> TRUE, width |-> coords.x2 - coords.x1,
     height |-> coords.y2 - coords.y1, colorPalette |-> <<>>]

\* the layout record of _process_component; p = 0 when there is no parent
ComponentLayout(nodes, c, p) ==
    LET coords == nodes[c].coordinates
        parent_coords == IF p # 0 THEN nodes[p].coordinates ELSE viewport
        parent_width == parent_coords.x2 - parent_coords.x1
        parent_height == parent_coords.y2 - parent_coords.y1
        top == Percent(coords.y1 - parent_coords.y1, parent_height)
        left == Percent(coords.x1 - parent_coords.x1, parent_width)
        right == Percent(parent_coords.x2 - coords.x2, parent_width)
        bottom == Percent(parent_coords.y2 - coords.y2, parent_height)
        positioning == IF p # 0 THEN determine_positioning(nodes, c, p) ELSE "relative"
        anchored == p # 0 /\ positioning = "absolute"
    IN [present |-> TRUE,
        position_parent |-> [top |-> top, right |-> right, bottom |-> bottom,
                             left |-> left],
        position_body |-> [top |-> Percent(coords.y1, viewport.y2),
                           right |-> Percent(viewport.x2 - coords.x2, viewport.x2),
                           bottom |-> Percent(viewport.y2 - coords.y2, viewport.y2),
                           left |-> Percent(coords.x1, viewport.x2)],
        positioning |-> positioning,
        width_percent |-> Percent(coords.x2 - coords.x1, parent_width),
        height_percent |-> Percent(coords.y2 - coords.y1, parent_height),
        vertical |-> IF ~anchored THEN "none"
                     ELSE IF top < bottom THEN "top" ELSE "bottom",
        horizontal |-> IF ~anchored THEN "none"
                       ELSE IF left < right THEN "left" ELSE "right"]

\* _process_component on node c with parent p (0 for none)
process_component(nodes, c, p) ==
    [nodes[c] EXCEPT
        !.styles = IF nodes[c].styles.present THEN nodes[c].styles
                   ELSE ComponentStyles(nodes[c].coordinates),
        !.layout = ComponentLayout(nodes, c, p)]

\* _process_media_element on a tracking entry held by node p
process_media_element(media, parent_coords) ==
    LET c == media.coordinates
    IN [media EXCEPT
           !.styles = [present |-> TRUE, width |-> c.x_max - c.x_min,
                       height |-> c.y_max - c.y_min, colorPalette |-> <<>>],
           !.layout = [present |-> TRUE,
                       position_parent |-> [top |-> c.y_min - parent_coords.y1,
                                            right |-> parent_coords.x2 - c.x_max,
                                            bottom |-> parent_coords.y2 - c.y_max,
                                            left |-> c.x_min - parent_coords.x1],
                       position_body |-> [top |-> c.y_min,
                                          right |-> viewport.x2 - c.x_max,
                                          bottom |-> viewport.y2 - c.y_max,
                                          left |-> c.x_min],
                       positioning |-> "absolute"]]

\* the root whose children list holds c, or 0
RootParentOf(h, c) ==
    IF \E r \in Range(h.roots) : c \in Range(h.nodes[r].children)
    THEN CHOOSE r \in Range(h.roots) : c \in Range(h.nodes[r].children)
    ELSE 0

\* the root whose media list holds m, or 0
RootHolderOf(h, m) ==
    IF \E r \in Range(h.roots) : m \in Range(h.nodes[r].media)
    THEN CHOOSE r \in Range(h.roots) : m \in Range(h.nodes[r].media)
    ELSE 0

\* process_component_structure, lines 471-480: the node table afterwards
ProcessedNodes(h) ==
    [c \in DOMAIN h.nodes |->
        IF c \in Range(h.roots) THEN process_component(h.nodes, c, 0)
        ELSE IF RootParentOf(h, c) # 0
             THEN process_component(h.nodes, c, RootParentOf(h, c))
        ELSE h.nodes[c]]

\* process_component_structure, lines 474-476: the tracking entries afterwards
ProcessedMedia(h, entries) ==
    [m \in DOMAIN entries |->
        IF RootHolderOf(h, m) # 0
        THEN process_media_element(entries[m],
                                   h.nodes[RootHolderOf(h, m)].coordinates)
        ELSE entries[m]]

\* ---- extract_color_palettes ----
\* lines 852-858: a coordinate in pixels, clamped to the image
ColorPixel(v, size) ==
    LET px == (v * size) \div 1000
        low == IF px < size THEN px ELSE size
    IN IF low > 0 THEN low ELSE 0

\* line 860: the pixel region of the component is not empty
HasPixelRegion(coords, width, height) ==
    /\ ColorPixel(coords.x2, width) > ColorPixel(coords.x1, width)
    /\ ColorPixel(coords.y2, height) > ColorPixel(coords.y1, height)

\* line 844: the types the colour extraction skips, with their subtrees
color_skipped_types == {"media", "icon", "logo", "image"}

\* the palettes _extract_dominant_colors may return: at most max_colors = 5
\* hex strings, depending on the pixels
Palettes == {<<"#ffffff">>, <<"#1a2b3c", "#ffffff">>}

\* the nodes _process_component_for_color visits: from the roots down,
\* not below a node of a skipped type
RECURSIVE ColorVisited(_, _, _)
ColorVisited(nodes, frontier, seen) ==
    LET open == {c \in frontier : nodes[c].type \notin color_skipped_types}
    IN IF open = {} THEN seen
       ELSE ColorVisited(nodes,
                         UNION {Range(nodes[c].children) : c \in open} \ (seen \cup open),
                         seen \cup open)

\* lines 860-864: the palette is written where the region is not empty and
\* the component has a styles record
ColoredNodes(h, palette, width, height) ==
    [c \in DOMAIN h.nodes |->
        IF /\ c \in ColorVisited(h.nodes, Range(h.roots), {})
           /\ HasPixelRegion(h.nodes[c].coordinates, width, height)
           /\ h.nodes[c].styles.present
        THEN [h.nodes[c] EXCEPT !.styles.colorPalette = palette]
        ELSE h.nodes[c]]

\* ---- inputs ----
ElementLabels == {"div", "text", "Image"}

ElementBoxes ==
    {<<100, 100, 600, 600>>,    \* a container
     <<95, 100, 600, 600>>,     \* nearly the same box (within the margin)
     <<200, 200, 400, 400>>,    \* inside both
     <<210, 210, 240, 240>>,    \* inside all; under one pixel of a small image
     <<220, 220, 380, 380>>}    \* inside the first three

Elements == [bbox : ElementBoxes, label : ElementLabels]

EmptyHierarchy == [roots |-> <<>>, nodes |-> <<>>]

HierIdle ==
    /\ hierPc = "idle"
    /\ input_json = <<>>
    /\ image_path = "none"
    /\ hcomponents = <<>>
    /\ media_tracking_map = <<>>
    /\ hierarchy = EmptyHierarchy

HierInit ==
    /\ hierPc = "start"
    /\ input_json \in UNION {[1..n -> Elements] : n \in 0..MaxElems}
    /\ image_path \in {"none", "readable", "unreadable"}
    /\ hcomponents = <<>>
    /\ media_tracking_map = <<>>
    /\ hierarchy = EmptyHierarchy

\* convert_json_structure, steps 1-2 (lines 273-297)
ConvertLinkParents ==
    /\ hierPc = "start"
    /\ hcomponents' = LinkParents(input_json)
    /\ hierPc' = "linked"
    /\ UNCHANGED <<input_json, image_path, media_tracking_map, hierarchy>>
    /\ UNCHANGED nonHierVars

\* convert_json_structure, step 3 (lines 299-391)
ConvertMedia ==
    /\ hierPc = "linked"
    /\ LET tracked == TrackedMedia(input_json, image_path, ImagePx, ImagePx)
       IN /\ media_tracking_map' = [m \in tracked |-> TrackingEntry(input_json[m])]
          /\ hcomponents' = RegisterMedia(hcomponents, tracked)
    /\ hierPc' = "media"
    /\ UNCHANGED <<input_json, image_path, hierarchy>>
    /\ UNCHANGED nonHierVars

\* convert_json_structure, step 4 (lines 393-444)
ConvertBuild ==
    /\ hierPc = "media"
    /\ hierarchy' = BuildHierarchy(input_json, hcomponents, DOMAIN media_tracking_map)
    /\ hierPc' = "built"
    /\ UNCHANGED <<input_json, image_path, hcomponents, media_tracking_map>>
    /\ UNCHANGED nonHierVars

\* process_component_structure (lines 447-482)
ProcessComponentStructure ==
    /\ hierPc = "built"
    /\ hierarchy' = [hierarchy EXCEPT !.nodes = ProcessedNodes(hierarchy)]
    /\ media_tracking_map' = ProcessedMedia(hierarchy, media_tracking_map)
    /\ hierPc' = "processed"
    /\ UNCHANGED <<input_json, image_path, hcomponents>>
    /\ UNCHANGED nonHierVars

\* ---- inputs for _process_component and _determine_positioning: a parent
\* with its children ----
LayoutChildTypes == {"div", "text", "modal"}

LayoutParentTypes == {"div", "text"}

LayoutChildBoxes ==
    {<<100, 100, 600, 600>>,    \* the parent's box
     <<100, 100, 300, 300>>,
     <<300, 100, 600, 300>>,    \* shares the edge y = 300 with the box above
     <<200, 200, 400, 400>>}    \* overlaps both

LayoutParentBoxes ==
    {<<100, 100, 600, 600>>,
     <<100, 100, 600, 100>>}    \* a parent of zero width

LayoutNode(id, type, box, children) ==
    [id |-> id, type |-> type,
     coordinates |-> [y1 |-> box[1], x1 |-> box[2], y2 |-> box[3], x2 |-> box[4]],
     media |-> <<>>, children |-> children, styles |-> NoRecord, layout |-> NoRecord]

\* the structure of one root (node 1) with the given children (nodes 2, 3, ...)
LayoutTree(parent, kids) ==
    [roots |-> <<1>>,
     nodes |-> [i \in 1..(Len(kids) + 1) |->
                   IF i = 1
                   THEN LayoutNode(1, parent.type, parent.box,
                                   [k \in 1..Len(kids) |-> k + 1])
                   ELSE LayoutNode(i, kids[i - 1].type, kids[i - 1].box, <<>>)]]

LayoutTrees ==
    {LayoutTree(parent, kids) :
        parent \in [type : LayoutParentTypes, box : LayoutParentBoxes],
        kids \in UNION {[1..n -> [type : LayoutChildTypes, box : LayoutChildBoxes]] :
                           n \in 0..MaxChildren}}

\* process_component_structure is called on a given structure
LayoutInit ==
    /\ hierPc = "built"
    /\ input_json = <<>>
    /\ image_path = "none"
    /\ hcomponents = <<>>
    /\ media_tracking_map = <<>>
    /\ hierarchy \in LayoutTrees

LayoutNext == ProcessComponentStructure

\* extract_color_palettes (lines 874-904): Image.open raises when the image
\* cannot be read; the palette depends on the pixels of the image
ExtractColorPalettes ==
    /\ hierPc = "processed"
    /\ IF image_path = "readable"
       THEN /\ \E palette \in Palettes :
                   hierarchy' = [hierarchy EXCEPT
                       !.nodes = ColoredNodes(hierarchy, palette, ImagePx, ImagePx)]
            /\ hierPc' = "coloured"
       ELSE /\ hierarchy' = hierarchy
            /\ hierPc' = "failed"
    /\ UNCHANGED <<input_json, image_path, hcomponents, media_tracking_map>>
    /\ UNCHANGED nonHierVars

HierNext ==
    \/ ConvertLinkParents
    \/ ConvertMedia
    \/ ConvertBuild
    \/ ProcessComponentStructure
    \/ ExtractColorPalettes

(***************************************************************************)
(* Claims about the hierarchy and the layout pass.                         *)
(***************************************************************************)
\* C4: after process_component_structure every component node at every
\* depth carries a layout record and a styles record, and every media item
\* attached to any component carries a layout record.
C4_EveryNodeHasLayout ==
    hierPc = "processed" =>
        \A c \in DOMAIN hierarchy.nodes :
            /\ hierarchy.nodes[c].layout.present
            /\ hierarchy.nodes[c].styles.present
            /\ \A m \in Range(hierarchy.nodes[c].media) :
                   media_tracking_map[m].layout.present

\* following parent_index from i reaches a component without parent in at
\* most `steps` steps
RECURSIVE ReachesRoot(_, _, _)
ReachesRoot(comps, i, steps) ==
    IF comps[i].parent_index = 0 THEN TRUE
    ELSE IF steps = 0 THEN FALSE
    ELSE ReachesRoot(comps, comps[i].parent_index, steps - 1)

\* C5: the parent relation computed by convert_json_structure is a rooted
\* forest: from every component, following parent_index reaches a component
\* with no parent (there is no cycle).
C5_ParentRelationIsForest ==
    hierPc \in {"linked", "media", "built", "processed"} =>
        \A i \in 1..Len(hcomponents) : ReachesRoot(hcomponents, i, Len(hcomponents))

\* C6: in the returned hierarchy no node of a children list has a media
\* label, and a media element with a computed parent is no node of the tree
\* and is an entry of that parent's media list.
C6_NoMediaChildNode ==
    hierPc = "built" =>
        /\ \A p \in DOMAIN hierarchy.nodes :
               \A c \in Range(hierarchy.nodes[p].children) :
                   ~IsMediaLabel(input_json[c].label)
        /\ \A m \in 1..Len(input_json) :
               (IsMediaLabel(input_json[m].label) /\ hcomponents[m].parent_index # 0) =>
                   /\ m \notin DOMAIN hierarchy.nodes
                   /\ hcomponents[m].parent_index \in DOMAIN hierarchy.nodes =>
                          m \in Range(hierarchy.nodes[hcomponents[m].parent_index].media)

\* the other components whose box, widened by the margin of 5, holds the
\* box of component i
Containers(i) ==
    {j \in 1..Len(input_json) :
        /\ j # i
        /\ input_json[j].bbox[1] - 5 <= input_json[i].bbox[1]
        /\ input_json[j].bbox[2] - 5 <= input_json[i].bbox[2]
        /\ input_json[j].bbox[3] + 5 >= input_json[i].bbox[3]
        /\ input_json[j].bbox[4] + 5 >= input_json[i].bbox[4]}

BoxArea(j) ==
    (input_json[j].bbox[3] - input_json[j].bbox[1])
        * (input_json[j].bbox[4] - input_json[j].bbox[2])

\* C26: for every component, _find_parent_index gives None when no other
\* component's box contains it within the margin, and otherwise the index of
\* a containing component of minimal area, the first in input order among
\* those of minimal area; it never gives the component's own index.
C26_SmallestContainerIsParent ==
    hierPc = "linked" =>
        \A i \in 1..Len(hcomponents) :
            LET parent == hcomponents[i].parent_index
            IN  /\ parent # i
                /\ parent = 0 <=> Containers(i) = {}
                /\ parent # 0 =>
                       /\ parent \in Containers(i)
                       /\ \A k \in Containers(i) : BoxArea(parent) <= BoxArea(k)
                       /\ \A k \in Containers(i) :
                              BoxArea(k) = BoxArea(parent) => parent <= k

\* a component with two containers of different areas, and one with none
C26_Witness ==
    /\ hierPc = "linked"
    /\ \E i \in 1..Len(hcomponents) : hcomponents[i].parent_index = 0
    /\ \E i \in 1..Len(hcomponents) :
           \E j, k \in Containers(i) :
               /\ BoxArea(j) < BoxArea(k)
               /\ hcomponents[i].parent_index = j

\* how many times component i is a node of the returned hierarchy: as a
\* root and as an entry of the children list of a built node
NodeOccurrences(i) ==
    Cardinality({k \in 1..Len(hierarchy.roots) : hierarchy.roots[k] = i})
    + Cardinality({<<p, k>> \in (DOMAIN hierarchy.nodes) \X (1..Len(input_json)) :
                      /\ k \in 1..Len(hierarchy.nodes[p].children)
                      /\ hierarchy.nodes[p].children[k] = i})

\* C29: every input element whose label is not a media label appears exactly
\* once as a node (a root or a nested child) of the hierarchy returned by
\* convert_json_structure, also when its smallest containing box belongs to
\* a media element or to a box nearly identical to its own.
C29_NonMediaAppearsOnce ==
    hierPc = "built" =>
        \A i \in 1..Len(input_json) :
            ~IsMediaLabel(input_json[i].label) =>
                /\ i \in DOMAIN hierarchy.nodes
                /\ NodeOccurrences(i) = 1

(***************************************************************************)
(* bbox/helper.py: parse_gemini_response.                                  *)
(* A text is a sequence of tokens [k, s, n, m]: punctuation ("[", "]",     *)
(* "{", "}", ",", ":"), white space ("sp", "nl"), a quoted string ("str",  *)
(* content s), an integer ("num", n), a decimal n.m ("dec"), a code fence  *)
(* ("fence", s = "json" or ""), and a bare word ("word", s).  A parsed     *)
(* JSON value is a record [t, s, n, m, keys, items].                       *)
(***************************************************************************)
Tok(k) == [k |-> k, s |-> "", n |-> 0, m |-> 0]

StrTok(s) == [k |-> "str", s |-> s, n |-> 0, m |-> 0]

NumTok(n) == [k |-> "num", s |-> "", n |-> n, m |-> 0]

DecTok(n, m) == [k |-> "dec", s |-> "", n |-> n, m |-> m]

WordTok(s) == [k |-> "word", s |-> s, n |-> 0, m |-> 0]

FenceTok(s) == [k |-> "fence", s |-> s, n |-> 0, m |-> 0]

IsSpace(tok) == tok.k \in {"sp", "nl"}

\* str.strip()
RECURSIVE StripLeft(_)
StripLeft(text) ==
    IF text # <<>> /\ IsSpace(Head(text)) THEN StripLeft(Tail(text)) ELSE text

RECURSIVE StripRight(_)
StripRight(text) ==
    IF text # <<>> /\ IsSpace(text[Len(text)])
    THEN StripRight(SubSeq(text, 1, Len(text) - 1))
    ELSE text

Strip(text) == StripRight(StripLeft(text))

\* text.find(fence): index of the first fence token (json only, or any), or 0
FindFence(text, json_only) ==
    LET hits == {i \in 1..Len(text) :
                    text[i].k = "fence" /\ (json_only => text[i].s = "json")}
    IN IF hits = {} THEN 0 ELSE CHOOSE i \in hits : \A j \in hits : i <= j

\* text.rfind("```"): index of the last fence token of either kind
RFindFence(text) ==
    LET hits == {i \in 1..Len(text) : text[i].k = "fence"}
    IN CHOOSE i \in hits : \A j \in hits : j <= i

\* lines 148-156: strip and cut the text out of its code fence
CleanText(response) ==
    LET text == Strip(response)
    IN IF FindFence(text, TRUE) # 0
       THEN Strip(SubSeq(text, FindFence(text, TRUE) + 1, RFindFence(text) - 1))
       ELSE IF FindFence(text, FALSE) # 0
       THEN Strip(SubSeq(text, FindFence(text, FALSE) + 1, RFindFence(text) - 1))
       ELSE text

\* ---- json.loads ----
JsonValue(t, s, n, m, keys, items) ==
    [t |-> t, s |-> s, n |-> n, m |-> m, keys |-> keys, items |-> items]

JsonNull == JsonValue("null", "", 0, 0, <<>>, <<>>)

ParseFail == [ok |-> FALSE, val |-> JsonNull, next |-> 0]

ParseOk(val, next) == [ok |-> TRUE, val |-> val, next |-> next]

\* JSON ignores the white space between tokens
NoSpace(text) == SelectSeq(text, LAMBDA tok : ~IsSpace(tok))

RECURSIVE ParseValue(_, _), ParseItems(_, _, _), ParseMembers(_, _, _, _)

\* the value that starts at token i
ParseValue(toks, i) ==
    IF i > Len(toks) THEN ParseFail
    ELSE CASE toks[i].k = "num" ->
                  ParseOk(JsonValue("num", "", toks[i].n, 0, <<>>, <<>>), i + 1)
           [] toks[i].k = "dec" ->
                  ParseOk(JsonValue("dec", "", toks[i].n, toks[i].m, <<>>, <<>>), i + 1)
           [] toks[i].k = "str" ->
                  ParseOk(JsonValue("str", toks[i].s, 0, 0, <<>>, <<>>), i + 1)
           [] toks[i].k = "word" /\ toks[i].s = "null" ->
                  ParseOk(JsonNull, i + 1)
           [] toks[i].k = "[" ->
                  IF i + 1 <= Len(toks) /\ toks[i + 1].k = "]"
                  THEN ParseOk(JsonValue("arr", "", 0, 0, <<>>, <<>>), i + 2)
                  ELSE ParseItems(toks, i + 1, <<>>)
           [] toks[i].k = "{" ->
                  IF i + 1 <= Len(toks) /\ toks[i + 1].k = "}"
                  THEN ParseOk(JsonValue("obj", "", 0, 0, <<>>, <<>>), i + 2)
                  ELSE ParseMembers(toks, i + 1, <<>>, <<>>)
           [] OTHER -> ParseFail

\* the items of an array from token i on, up to its closing bracket
ParseItems(toks, i, acc) ==
    LET item == ParseValue(toks, i)
    IN IF ~item.ok \/ item.next > Len(toks) THEN ParseFail
       ELSE IF toks[item.next].k = ","
            THEN ParseItems(toks, item.next + 1, Append(acc, item.val))
       ELSE IF toks[item.next].k = "]"
            THEN ParseOk(JsonValue("arr", "", 0, 0, <<>>, Append(acc, item.val)),
                         item.next + 1)
       ELSE ParseFail

\* the members of an object from token i on, up to its closing brace
ParseMembers(toks, i, keys, vals) ==
    IF i + 1 > Len(toks) \/ toks[i].k # "str" \/ toks[i + 1].k # ":" THEN ParseFail
    ELSE LET member == ParseValue(toks, i + 2)
         IN IF ~member.ok \/ member.next > Len(toks) THEN ParseFail
            ELSE IF toks[member.next].k = ","
                 THEN ParseMembers(toks, member.next + 1, Append(keys, toks[i].s),
                                   Append(vals, member.val))
            ELSE IF toks[member.next].k = "}"
                 THEN ParseOk(JsonValue("obj", "", 0, 0, Append(keys, toks[i].s),
                                        Append(vals, member.val)),
                              member.next + 1)
            ELSE ParseFail

\* json.loads(text): one value and nothing after it, or JSONDecodeError
json_loads(text) ==
    LET toks == NoSpace(text)
        r == ParseValue(toks, 1)
    IN IF r.ok /\ r.next = Len(toks) + 1 THEN r ELSE ParseFail

\* ---- tier 2: the cleanup of lines 163-165 ----
\* str.replace(old, new) on token kinds, left to right, non-overlapping
RECURSIVE ReplaceKinds(_, _, _)
ReplaceKinds(text, old, new) ==
    IF Len(text) < Len(old) THEN text
    ELSE IF \A j \in 1..Len(old) : text[j].k = old[j]
         THEN [j \in 1..Len(new) |-> Tok(new[j])]
              \o ReplaceKinds(SubSeq(text, Len(old) + 1, Len(text)), old, new)
    ELSE <<Head(text)>> \o ReplaceKinds(Tail(text), old, new)

\* re.sub(r'(\d+),(\d+)', r'\1.\2', text): integer , integer becomes a decimal
RECURSIVE CommaToPeriod(_)
CommaToPeriod(text) ==
    IF text = <<>> THEN <<>>
    ELSE IF Len(text) >= 3 /\ text[1].k = "num" /\ text[2].k = ","
                           /\ text[3].k = "num"
         THEN <<DecTok(text[1].n, text[3].n)>>
              \o CommaToPeriod(SubSeq(text, 4, Len(text)))
    ELSE <<Head(text)>> \o CommaToPeriod(Tail(text))

Cleanup(text) ==
    CommaToPeriod(ReplaceKinds(ReplaceKinds(text, <<",", "nl", "]">>, <<"nl", "]">>),
                               <<",", "]">>, <<"]">>))

\* ---- tier 3: the regular expression of line 172 ----
\* \s*: the first index from i on that holds no white space
RECURSIVE SkipSpace(_, _)
SkipSpace(text, i) ==
    IF i <= Len(text) /\ IsSpace(text[i]) THEN SkipSpace(text, i + 1) ELSE i

KindAt(text, i, k) == i <= Len(text) /\ text[i].k = k

\* [^\]]+\] : the index after the first "]" from i on, 0 if there is none or
\* nothing stands before it
RECURSIVE ClosingBracket(_, _, _)
ClosingBracket(text, i, seen) ==
    IF i > Len(text) THEN 0
    ELSE IF text[i].k = "]" THEN (IF seen THEN i + 1 ELSE 0)
    ELSE ClosingBracket(text, i + 1, TRUE)

NoMatch == [ok |-> FALSE, group |-> "", next |-> 0]

\* a match of the pattern that starts at token i: its group 1 and its end
MatchComponentAt(text, i) ==
    LET a == SkipSpace(text, i + 1)            \* "label"
        b == SkipSpace(text, a + 2)            \* "<label>"
        c == SkipSpace(text, b + 2)            \* "box_percent" or "box_2d"
        d == SkipSpace(text, c + 2)            \* [
        f == ClosingBracket(text, d + 1, FALSE)
        g == SkipSpace(text, f)                \* }
    IN IF /\ KindAt(text, i, "{")
          /\ KindAt(text, a, "str") /\ text[a].s = "label"
          /\ KindAt(text, a + 1, ":")
          /\ KindAt(text, b, "str") /\ text[b].s # ""
          /\ KindAt(text, b + 1, ",")
          /\ KindAt(text, c, "str") /\ text[c].s \in {"box_percent", "box_2d"}
          /\ KindAt(text, c + 1, ":")
          /\ KindAt(text, d, "[")
          /\ f # 0
          /\ KindAt(text, g, "}")
       THEN [ok |-> TRUE, group |-> text[c].s, next |-> g + 1]
       ELSE NoMatch

\* re.findall(pattern, text): with one group in the pattern, the list of the
\* group's strings
RECURSIVE FindAll(_, _)
FindAll(text, i) ==
    IF i > Len(text) THEN <<>>
    ELSE LET hit == MatchComponentAt(text, i)
         IN IF hit.ok THEN <<hit.group>> \o FindAll(text, hit.next)
            ELSE FindAll(text, i + 1)

\* "[" + ",".join(matches) + "]"
RECURSIVE JoinWithCommas(_)
JoinWithCommas(matches) ==
    IF matches = <<>> THEN <<>>
    ELSE IF Len(matches) = 1 THEN <<WordTok(matches[1])>>
    ELSE <<WordTok(matches[1]), Tok(",")>> \o JoinWithCommas(Tail(matches))

FixedJson(matches) == <<Tok("[")>> \o JoinWithCommas(matches) \o <<Tok("]")>>

\* ---- tier 3 of parse_gemini_response_for_heuristic: the pattern of line 254 ----
\* the index after a match of the pattern that starts at token i, 0 if there
\* is none; the match ends with the description string, before any brace
HeuristicMatchEnd(text, i) ==
    LET a == SkipSpace(text, i + 1)            \* "bbox"
        b == SkipSpace(text, a + 2)            \* [
        c == ClosingBracket(text, b + 1, FALSE) \* ,
        d == SkipSpace(text, c + 1)            \* "label"
        f == SkipSpace(text, d + 2)            \* "<label>"
        g == SkipSpace(text, f + 2)            \* "description"
        h == SkipSpace(text, g + 2)            \* "<description>"
    IN IF /\ KindAt(text, i, "{")
          /\ KindAt(text, a, "str") /\ text[a].s = "bbox"
          /\ KindAt(text, a + 1, ":")
          /\ KindAt(text, b, "[")
          /\ c # 0
          /\ KindAt(text, c, ",")
          /\ KindAt(text, d, "str") /\ text[d].s = "label"
          /\ KindAt(text, d + 1, ":")
          /\ KindAt(text, f, "str") /\ text[f].s # ""
          /\ KindAt(text, f + 1, ",")
          /\ KindAt(text, g, "str") /\ text[g].s = "description"
          /\ KindAt(text, g + 1, ":")
          /\ KindAt(text, h, "str")
       THEN h + 1
       ELSE 0

\* re.findall(pattern, text): with no group in the pattern, the list of the
\* matched texts
RECURSIVE FindAllHeuristic(_, _)
FindAllHeuristic(text, i) ==
    IF i > Len(text) THEN <<>>
    ELSE IF HeuristicMatchEnd(text, i) # 0
         THEN <<SubSeq(text, i, HeuristicMatchEnd(text, i) - 1)>>
              \o FindAllHeuristic(text, HeuristicMatchEnd(text, i))
    ELSE FindAllHeuristic(text, i + 1)

\* ",".join([match + "}" for match in matches])
RECURSIVE JoinClosed(_)
JoinClosed(matches) ==
    IF matches = <<>> THEN <<>>
    ELSE IF Len(matches) = 1 THEN matches[1] \o <<Tok("}")>>
    ELSE matches[1] \o <<Tok("}"), Tok(",")>> \o JoinClosed(Tail(matches))

HeuristicFixedJson(matches) == <<Tok("[")>> \o JoinClosed(matches) \o <<Tok("]")>>

EmptyList == JsonValue("arr", "", 0, 0, <<>>, <<>>)

\* ---- lines 194-209: standardized_data ----
HasKey(obj, key) == \E j \in 1..Len(obj.keys) : obj.keys[j] = key

\* item[key]: a repeated key keeps its last value
Member(obj, key) ==
    obj.items[CHOOSE j \in 1..Len(obj.keys) :
                 obj.keys[j] = key /\ \A q \in 1..Len(obj.keys) :
                                          obj.keys[q] = key => q <= j]

IsNumber(v) == v.t \in {"num", "dec"}

\* len(v) raises TypeError
NoLen(v) == v.t \in {"num", "dec", "null"}

\* the outcome for one item: "skip", "append" or "raise" (TypeError).  len()
\* of a list or a dict is its number of items; strings stand for labels and
\* keys and are never four characters long
ItemOutcome(item) ==
    IF item.t # "obj" \/ ~HasKey(item, "label") THEN "skip"
    ELSE IF HasKey(item, "box_2d") /\ NoLen(Member(item, "box_2d")) THEN "raise"
    ELSE IF HasKey(item, "box_2d") /\ Len(Member(item, "box_2d").items) = 4
         THEN (IF /\ Member(item, "box_2d").t = "arr"
                  /\ \A j \in 1..4 : IsNumber(Member(item, "box_2d").items[j])
               THEN "append" ELSE "raise")
    ELSE IF HasKey(item, "box_percent") /\ NoLen(Member(item, "box_percent"))
         THEN "raise"
    ELSE IF HasKey(item, "box_percent") /\ Len(Member(item, "box_percent").items) = 4
         THEN "append"
    ELSE "skip"

\* a number of the response as [n, m]: the integer n, or the decimal n.m
Number(v) == [n |-> v.n, m |-> v.m]

\* the component appended for an item.  From box_2d = [y_min, x_min, y_max,
\* x_max] the box is x_min, y_min, x_max, y_max, each divided by 10
\* (tenths = TRUE keeps the numbers and records the division); an item with
\* box_percent is appended as it is
StandardComponent(item) ==
    IF HasKey(item, "box_2d") /\ Len(Member(item, "box_2d").items) = 4
    THEN LET b == Member(item, "box_2d").items
         IN [label |-> Member(item, "label").s, tenths |-> TRUE,
             box |-> <<Number(b[2]), Number(b[1]), Number(b[4]), Number(b[3])>>]
    ELSE LET b == Member(item, "box_percent").items
         IN [label |-> Member(item, "label").s, tenths |-> FALSE,
             box |-> [j \in 1..Len(b) |-> Number(b[j])]]

\* the items the loop of line 195 visits: the elements of a list; the keys
\* of a dict and the characters of a string are no dicts and are skipped
LoopItems(value) == IF value.t = "arr" THEN value.items ELSE <<>>

\* iterating data raises TypeError
NotIterable(value) == value.t \in {"num", "dec", "null"}

RECURSIVE Standardized(_)
Standardized(items) ==
    IF items = <<>> THEN <<>>
    ELSE (IF ItemOutcome(Head(items)) = "append"
          THEN <<StandardComponent(Head(items))>> ELSE <<>>)
         \o Standardized(Tail(items))

StandardizeRaises(value) ==
    \/ NotIterable(value)
    \/ \E j \in 1..Len(LoopItems(value)) : ItemOutcome(LoopItems(value)[j]) = "raise"

\* ---- inputs: responses of the vision model ----
ResponseLabels == {"a", "navbar"}

\* boxes [y_min, x_min, y_max, x_max]; the last one has y_min > y_max
ResponseBoxes == {<<1, 2, 3, 4>>, <<100, 100, 600, 600>>, <<3, 2, 1, 4>>}

ResponseObjects == [label : ResponseLabels, box_2d : ResponseBoxes]

Separator(spaced) == IF spaced THEN <<Tok(","), Tok("sp")>> ELSE <<Tok(",")>>

Colon(spaced) == IF spaced THEN <<Tok(":"), Tok("sp")>> ELSE <<Tok(":")>>

\* {"label": "a", "box_2d": [1, 2, 3, 4]}
RenderObject(obj, spaced) ==
    <<Tok("{"), StrTok("label")>> \o Colon(spaced) \o <<StrTok(obj.label)>>
    \o Separator(spaced) \o <<StrTok("box_2d")>> \o Colon(spaced)
    \o <<Tok("["), NumTok(obj.box_2d[1])>> \o Separator(spaced)
    \o <<NumTok(obj.box_2d[2])>> \o Separator(spaced)
    \o <<NumTok(obj.box_2d[3])>> \o Separator(spaced)
    \o <<NumTok(obj.box_2d[4]), Tok("]"), Tok("}")>>

\* {"bbox": [1, 2, 3, 4], "label": "a", "description": "d"}
RenderHeuristicObject(obj, spaced) ==
    <<Tok("{"), StrTok("bbox")>> \o Colon(spaced)
    \o <<Tok("["), NumTok(obj.box_2d[1])>> \o Separator(spaced)
    \o <<NumTok(obj.box_2d[2])>> \o Separator(spaced)
    \o <<NumTok(obj.box_2d[3])>> \o Separator(spaced)
    \o <<NumTok(obj.box_2d[4]), Tok("]")>> \o Separator(spaced)
    \o <<StrTok("label")>> \o Colon(spaced) \o <<StrTok(obj.label)>>
    \o Separator(spaced) \o <<StrTok("description")>> \o Colon(spaced)
    \o <<StrTok("d"), Tok("}")>>

RECURSIVE RenderObjects(_, _)
RenderObjects(objs, spaced) ==
    IF objs = <<>> THEN <<>>
    ELSE IF Len(objs) = 1 THEN RenderObject(objs[1], spaced)
    ELSE RenderObject(objs[1], spaced) \o Separator(spaced)
         \o RenderObjects(Tail(objs), spaced)

RECURSIVE RenderHeuristicObjects(_, _)
RenderHeuristicObjects(objs, spaced) ==
    IF objs = <<>> THEN <<>>
    ELSE IF Len(objs) = 1 THEN RenderHeuristicObject(objs[1], spaced)
    ELSE RenderHeuristicObject(objs[1], spaced) \o Separator(spaced)
         \o RenderHeuristicObjects(Tail(objs), spaced)

TrailingComma(trailing) ==
    CASE trailing = "none" -> <<>>
      [] trailing = "comma" -> <<Tok(",")>>
      [] trailing = "comma_newline" -> <<Tok(","), Tok("nl")>>

RenderArray(objs, spaced, trailing) ==
    <<Tok("[")>> \o RenderObjects(objs, spaced) \o TrailingComma(trailing)
    \o <<Tok("]")>>

RenderHeuristicArray(objs, spaced, trailing) ==
    <<Tok("[")>> \o RenderHeuristicObjects(objs, spaced) \o TrailingComma(trailing)
    \o <<Tok("]")>>

\* the array alone, after a sentence, or inside a ```json fence; or, in
\* place of the array, nothing, a number, null, or the first object alone
WrapArray(arr, first, form) ==
    CASE form.wrap = "empty" -> <<>>
      [] form.wrap = "number" -> <<NumTok(NumberResponse)>>
      [] form.wrap = "null" -> <<WordTok("null")>>
      [] form.wrap = "object" -> first
      [] form.wrap = "bare" -> arr
      [] form.wrap = "prose" ->
             <<WordTok("Detected"), Tok("sp"), WordTok("elements"), Tok(":"),
               Tok("nl")>> \o arr
      [] form.wrap = "fenced" ->
             <<FenceTok("json"), Tok("nl")>> \o arr \o <<Tok("nl"), FenceTok("")>>

RenderResponse(objs, form) ==
    WrapArray(RenderArray(objs, form.spaced, form.trailing),
              IF objs = <<>> THEN <<>> ELSE RenderObject(objs[1], form.spaced),
              form)

RenderHeuristicResponse(objs, form) ==
    WrapArray(RenderHeuristicArray(objs, form.spaced, form.trailing),
              IF objs = <<>> THEN <<>> ELSE RenderHeuristicObject(objs[1], form.spaced),
              form)

ResponseForms ==
    [spaced : BOOLEAN, trailing : {"none", "comma", "comma_newline"},
     wrap : {"bare", "prose", "fenced"}]

EmptyForm == [spaced |-> FALSE, trailing |-> "none", wrap |-> "empty"]

\* responses that are no array: empty, a number, null
ScalarForms ==
    {[spaced |-> FALSE, trailing |-> "none", wrap |-> w] :
        w \in {"empty", "number", "null"}}

\* a response that is one object, not in an array
ObjectForm == [spaced |-> FALSE, trailing |-> "none", wrap |-> "object"]

ParseIdle ==
    /\ parsePc = "idle"
    /\ response_objs = <<>>
    /\ response_form = EmptyForm
    /\ response_text = <<>>
    /\ cleaned_text = <<>>
    /\ data = JsonNull
    /\ parse_tier = 0
    /\ parse_outcome = "none"
    /\ parse_result = <<>>
    /\ use_heuristic = FALSE
    /\ heuristic_result = JsonNull

ParseInit ==
    /\ parsePc = "start"
    /\ use_heuristic \in BOOLEAN
    /\ \/ /\ response_objs \in UNION {[1..n -> ResponseObjects] : n \in 1..MaxObjs}
          /\ response_form \in ResponseForms
       \/ /\ response_objs = <<>>
          /\ response_form \in ScalarForms
       \/ /\ response_objs \in [1..1 -> ResponseObjects]
          /\ response_form = ObjectForm
    /\ response_text = IF use_heuristic
                       THEN RenderHeuristicResponse(response_objs, response_form)
                       ELSE RenderResponse(response_objs, response_form)
    /\ heuristic_result = JsonNull
    /\ cleaned_text = <<>>
    /\ data = JsonNull
    /\ parse_tier = 0
    /\ parse_outcome = "running"
    /\ parse_result = <<>>

\* where a parser goes once json.loads has succeeded
AfterLoad == IF use_heuristic THEN "return_data" ELSE "standardize"

\* lines 145-156 and 219-233: the empty response returns []; otherwise strip
\* and unfence
ParseClean ==
    /\ parsePc = "start"
    /\ IF response_text = <<>>
       THEN /\ parsePc' = "done"
            /\ parse_outcome' = "returned"
            /\ cleaned_text' = cleaned_text
            /\ heuristic_result' = IF use_heuristic THEN EmptyList ELSE heuristic_result
       ELSE /\ parsePc' = "tier1"
            /\ parse_outcome' = parse_outcome
            /\ cleaned_text' = CleanText(response_text)
            /\ heuristic_result' = heuristic_result
    /\ UNCHANGED <<response_objs, response_form, response_text, data, parse_tier,
                   parse_result, use_heuristic>>
    /\ UNCHANGED nonParseVars

\* lines 158-161 and 235-239: json.loads of the cleaned text
ParseTier1 ==
    /\ parsePc = "tier1"
    /\ parse_tier' = 1
    /\ IF json_loads(cleaned_text).ok
       THEN /\ data' = json_loads(cleaned_text).val
            /\ parsePc' = AfterLoad
       ELSE /\ data' = data
            /\ parsePc' = "tier2"
    /\ UNCHANGED <<response_objs, response_form, response_text, cleaned_text,
                   parse_outcome, parse_result, use_heuristic, heuristic_result>>
    /\ UNCHANGED nonParseVars

\* lines 162-169 and 240-247: cleanup, then json.loads again
ParseTier2 ==
    /\ parsePc = "tier2"
    /\ parse_tier' = 2
    /\ cleaned_text' = Cleanup(cleaned_text)
    /\ IF json_loads(cleaned_text').ok
       THEN /\ data' = json_loads(cleaned_text').val
            /\ parsePc' = AfterLoad
       ELSE /\ data' = data
            /\ parsePc' = "tier3"
    /\ UNCHANGED <<response_objs, response_form, response_text, parse_outcome,
                   parse_result, use_heuristic, heuristic_result>>
    /\ UNCHANGED nonParseVars

\* lines 170-192: findall, join, json.loads; no match or any exception
\* returns []
ParseTier3 ==
    /\ parsePc = "tier3"
    /\ ~use_heuristic
    /\ parse_tier' = 3
    /\ LET matches == FindAll(cleaned_text, 1)
       IN IF matches # <<>> /\ json_loads(FixedJson(matches)).ok
          THEN /\ data' = json_loads(FixedJson(matches)).val
               /\ parsePc' = "standardize"
               /\ parse_outcome' = parse_outcome
          ELSE /\ data' = data
               /\ parsePc' = "done"
               /\ parse_outcome' = "returned"
    /\ UNCHANGED <<response_objs, response_form, response_text, cleaned_text,
                   parse_result, use_heuristic, heuristic_result>>
    /\ UNCHANGED nonParseVars

\* lines 249-268: findall, close each match with "}", join, json.loads; no
\* match or any exception returns []
ParseTier3Heuristic ==
    /\ parsePc = "tier3"
    /\ use_heuristic
    /\ parse_tier' = 3
    /\ LET matches == FindAllHeuristic(cleaned_text, 1)
       IN IF matches # <<>> /\ json_loads(HeuristicFixedJson(matches)).ok
          THEN /\ data' = json_loads(HeuristicFixedJson(matches)).val
               /\ parsePc' = "return_data"
               /\ parse_outcome' = parse_outcome
               /\ heuristic_result' = heuristic_result
          ELSE /\ data' = data
               /\ parsePc' = "done"
               /\ parse_outcome' = "returned"
               /\ heuristic_result' = EmptyList
    /\ UNCHANGED <<response_objs, response_form, response_text, cleaned_text,
                   parse_result, use_heuristic>>
    /\ UNCHANGED nonParseVars

\* lines 194-209: build standardized_data from data and return it
ParseStandardize ==
    /\ parsePc = "standardize"
    /\ IF StandardizeRaises(data)
       THEN /\ parse_outcome' = "raised"
            /\ parse_result' = parse_result
       ELSE /\ parse_outcome' = "returned"
            /\ parse_result' = Standardized(LoopItems(data))
    /\ parsePc' = "done"
    /\ UNCHANGED <<response_objs, response_form, response_text, cleaned_text, data,
                   parse_tier, use_heuristic, heuristic_result>>
    /\ UNCHANGED nonParseVars

\* lines 270-271: len(data) for the message, then return data as it is
ParseReturnData ==
    /\ parsePc = "return_data"
    /\ IF NoLen(data)
       THEN /\ parse_outcome' = "raised"
            /\ heuristic_result' = heuristic_result
       ELSE /\ parse_outcome' = "returned"
            /\ heuristic_result' = data
    /\ parsePc' = "done"
    /\ UNCHANGED <<response_objs, response_form, response_text, cleaned_text, data,
                   parse_tier, parse_result, use_heuristic>>
    /\ UNCHANGED nonParseVars

ParseNext ==
    \/ ParseClean
    \/ ParseTier1
    \/ ParseTier2
    \/ ParseTier3
    \/ ParseTier3Heuristic
    \/ ParseStandardize
    \/ ParseReturnData

(***************************************************************************)
(* description_generation: DescriptionGenerationUsecase.execute with its   *)
(* per-component tasks behind an asyncio.Semaphore, and                    *)
(* HeuristicDescriptionUsecase.execute.                                     *)
(***************************************************************************)
NoResult == [kind |-> "none", status |-> 0]

ReturnedPath == [kind |-> "path", status |-> 0]

\* raise HTTPException(status_code=404, ...)
HTTPException404 == [kind |-> "HTTPException", status |-> 404]

\* an exception of the description pipeline or of a component task
UnexpectedError == [kind |-> "Exception", status |-> 0]

\* the except clause of execute turns whatever was raised inside the try
\* block into JsonResponseError(status_code=500, ...)
WrapInJsonResponseError(exc) == [kind |-> "JsonResponseError", status |-> 500]

\* a semaphore that never blocks
NeverLocked(value) == TRUE

\* Semaphore.acquire does not wait: the value is positive
NotLocked(value) == value > 0

\* _process_component_async calls the capability unless the label is image
NeedsAnalysis(label) == LowerToken(label) # "image"

InLimiter == {t \in DOMAIN task : task[t] \in {"inside", "calling"}}

ComponentLabels == {"div", "Image"}

\* ---- answers of the description capability ----
AnswerObject == <<Tok("{"), StrTok("type"), Tok(":"), StrTok("div"), Tok("}")>>

Answers ==
    {AnswerObject,
     <<FenceTok("json"), Tok("nl")>> \o AnswerObject \o <<Tok("nl"), FenceTok("")>>,
     <<Tok("{"), StrTok("type"), Tok(":"), StrTok("div"), Tok(","), Tok("}")>>,
     <<WordTok("Sorry")>>,
     <<WordTok("null")>>,
     <<Tok("["), Tok("]")>>}

NoDescription == [kind |-> "none", type |-> "", keys |-> {}, styles |-> {}, media |-> {}]

\* the initial result["description"] of _process_component_async (line 137),
\* which an image component keeps
EmptyDescription == [kind |-> "list", type |-> "", keys |-> {}, styles |-> {}, media |-> {}]

\* helper.py 170-181 and 195-206: the default record
DefaultRecord(component_label) ==
    [kind |-> "default", type |-> component_label,
     keys |-> {"type", "styles", "content", "media", "children"},
     styles |-> {"colorPalette", "typography", "spacing", "layout"},
     media |-> {"images", "icons"}]

\* line 175-178: component_data is None
NoneRecord == [kind |-> "parsed", type |-> "", keys |-> {"description"}, styles |-> {},
               media |-> {}]

\* the parsed object of the answer
ParsedRecord(value) ==
    [kind |-> "parsed", type |-> "", keys |-> {value.keys[i] : i \in DOMAIN value.keys},
     styles |-> {}, media |-> {}]

AttributeError == [kind |-> "raise", type |-> "", keys |-> {}, styles |-> {}, media |-> {}]

\* an analysis in which json.JSONDecodeError is not handled: the error leaves
\* the task
AnalysisWithoutDecodeHandler(text, component_label) ==
    LET r == json_loads(CleanText(text))
    IN  IF ~r.ok THEN AttributeError
        ELSE IF r.val.t = "null" THEN NoneRecord
        ELSE IF r.val.t = "obj" THEN ParsedRecord(r.val)
        ELSE AttributeError

\* helper.py 146-184 and description_generation_usecase.py 174-183: the text
\* is cut out of its fence and parsed; text that does not parse gives the
\* default record, null gives {"description": ""}, an object is kept, and
\* any other value has no get method (AttributeError at line 184)
Analysis(text, component_label) ==
    LET r == json_loads(CleanText(text))
    IN  IF ~r.ok THEN DefaultRecord(component_label)
        ELSE IF r.val.t = "null" THEN NoneRecord
        ELSE IF r.val.t = "obj" THEN ParsedRecord(r.val)
        ELSE AttributeError

NoAnswer == <<WordTok("no answer")>>

\* the tasks that gather (line 81) started run until they end: while execute
\* awaits gather and, when a task's exception ended gather, after it (gather
\* does not cancel the other tasks)
TasksRunning == descPc = "gathering" \/ (descPc = "done" /\ raised_by # 0)

\* a limiter whose slot is kept when the block is left
KeepSlot(value) == value

\* line 75: async with semaphore (exit), on return and on exception alike
Release(value) == value + 1

DescIdle ==
    /\ descPc = "idle"
    /\ desc_mode = "claude"
    /\ labels_exist = FALSE
    /\ desc_components = <<>>
    /\ max_concurrent = 0
    /\ semaphore = 0
    /\ task = <<>>
    /\ call_failed = <<>>
    /\ external_calls = 0
    /\ desc_result = NoResult
    /\ answer = <<>>
    /\ description = <<>>
    /\ raised_by = 0
    /\ detailed_components = <<>>

DescInit ==
    /\ descPc = "start"
    /\ desc_mode \in {"claude", "heuristic"}
    /\ labels_exist \in BOOLEAN
    /\ desc_components \in UNION {[1..n -> ComponentLabels] : n \in 0..MaxComponents}
    /\ max_concurrent \in (1..MaxConcurrent) \cup {DefaultMaxConcurrent}
    /\ desc_mode = "heuristic" => max_concurrent = DefaultMaxConcurrent
    /\ semaphore = 0
    /\ task = <<>>
    /\ call_failed = <<>>
    /\ external_calls = 0
    /\ desc_result = NoResult
    /\ answer = <<>>
    /\ description = <<>>
    /\ raised_by = 0
    /\ detailed_components = <<>>

\* DescriptionGenerationUsecase.execute, lines 44-79: without the labels file
\* HTTPException(404) is raised inside the try block and the except clause
\* of line 102 raises JsonResponseError(500); otherwise the semaphore and one
\* task per component are created
DescStart ==
    /\ descPc = "start"
    /\ desc_mode = "claude"
    /\ IF ~labels_exist
       THEN /\ desc_result' = WrapInJsonResponseError(HTTPException404)
            /\ descPc' = "done"
            /\ UNCHANGED <<semaphore, task, call_failed, answer, description>>
       ELSE /\ semaphore' = max_concurrent
            /\ task' = [t \in 1..Len(desc_components) |-> "ready"]
            /\ call_failed' = [t \in 1..Len(desc_components) |-> FALSE]
            /\ answer' = [t \in 1..Len(desc_components) |-> NoAnswer]
            /\ description' = [t \in 1..Len(desc_components) |-> NoDescription]
            /\ descPc' = "gathering"
            /\ desc_result' = desc_result
    /\ UNCHANGED <<desc_mode, labels_exist, desc_components, max_concurrent,
                   external_calls, raised_by, detailed_components>>
    /\ UNCHANGED nonDescVars

\* line 75: async with semaphore (enter)
TaskAcquire(t) ==
    /\ t \in DOMAIN task
    /\ TasksRunning
    /\ task[t] = "ready"
    /\ NotLocked(semaphore)
    /\ semaphore' = semaphore - 1
    /\ task' = [task EXCEPT ![t] = "inside"]
    /\ UNCHANGED <<descPc, desc_mode, labels_exist, desc_components, max_concurrent,
                   call_failed, external_calls, desc_result, answer, description,
                   raised_by, detailed_components>>
    /\ UNCHANGED nonDescVars

\* _process_component_async for an image component (lines 158-171): the
\* image is clipped, nothing is awaited, and the task leaves the semaphore
TaskClip(t) ==
    /\ t \in DOMAIN task
    /\ TasksRunning
    /\ task[t] = "inside"
    /\ ~NeedsAnalysis(desc_components[t])
    /\ task' = [task EXCEPT ![t] = "done"]
    /\ description' = [description EXCEPT ![t] = EmptyDescription]
    /\ semaphore' = Release(semaphore)
    /\ UNCHANGED <<descPc, desc_mode, labels_exist, desc_components, max_concurrent,
                   call_failed, external_calls, desc_result, answer, raised_by,
                   detailed_components>>
    /\ UNCHANGED nonDescVars

\* lines 174-177 and helper.py 132: the request to the capability is sent
TaskCall(t) ==
    /\ t \in DOMAIN task
    /\ TasksRunning
    /\ task[t] = "inside"
    /\ NeedsAnalysis(desc_components[t])
    /\ task' = [task EXCEPT ![t] = "calling"]
    /\ external_calls' = external_calls + 1
    /\ UNCHANGED <<descPc, desc_mode, labels_exist, desc_components, max_concurrent,
                   semaphore, call_failed, desc_result, answer, description,
                   raised_by, detailed_components>>
    /\ UNCHANGED nonDescVars

\* the call ends.  A failure (claude_service.py 113-117 raises
\* JsonResponseError) is caught by helper.py 186-206, which returns the
\* default record; the task returns its result and leaves the semaphore
TaskReturn(t) ==
    /\ t \in DOMAIN task
    /\ TasksRunning
    /\ task[t] = "calling"
    /\ call_failed' = [call_failed EXCEPT ![t] = TRUE]
    /\ description' = [description EXCEPT ![t] = DefaultRecord(desc_components[t])]
    /\ task' = [task EXCEPT ![t] = "done"]
    /\ semaphore' = Release(semaphore)
    /\ UNCHANGED <<descPc, desc_mode, labels_exist, desc_components, max_concurrent,
                   external_calls, desc_result, answer, raised_by,
                   detailed_components>>
    /\ UNCHANGED nonDescVars

\* the call answers with a text (helper.py 144-184, usecase 174-195): the
\* task stores what the analysis gives, returns and leaves the semaphore.
\* When the analysis raises, the task leaves the semaphore, gather (line 81)
\* raises the first such exception and the except clause of line 102 ends
\* execute
TaskAnswer(t) ==
    /\ t \in DOMAIN task
    /\ TasksRunning
    /\ task[t] = "calling"
    /\ \E text \in Answers :
        LET outcome == Analysis(text, desc_components[t])
        IN  /\ answer' = [answer EXCEPT ![t] = text]
            /\ IF outcome = AttributeError
               THEN /\ raised_by' = IF raised_by = 0 THEN t ELSE raised_by
                    /\ desc_result' = WrapInJsonResponseError(UnexpectedError)
                    /\ descPc' = "done"
                    /\ description' = description
               ELSE /\ description' = [description EXCEPT ![t] = outcome]
                    /\ UNCHANGED <<raised_by, desc_result, descPc>>
    /\ task' = [task EXCEPT ![t] = "done"]
    /\ semaphore' = Release(semaphore)
    /\ UNCHANGED <<desc_mode, labels_exist, desc_components, max_concurrent,
                   call_failed, external_calls, detailed_components>>
    /\ UNCHANGED nonDescVars

\* lines 81-100: gather has every result; one entry per details["id"] (a
\* fresh uuid prefix, taken as distinct per component) is written to the
\* file and its path returned
DescFinish ==
    /\ descPc = "gathering"
    /\ \A t \in DOMAIN task : task[t] = "done"
    /\ detailed_components' = [t \in DOMAIN task |-> description[t]]
    /\ desc_result' = ReturnedPath
    /\ descPc' = "done"
    /\ UNCHANGED <<desc_mode, labels_exist, desc_components, max_concurrent, semaphore,
                   task, call_failed, external_calls, answer, description, raised_by>>
    /\ UNCHANGED nonDescVars

\* HeuristicDescriptionUsecase.execute (lines 25-66): without the labels file
\* HTTPException(404) is raised inside the try block and the except clause
\* of line 61 raises JsonResponseError(500); otherwise the hierarchy, layout
\* and colour steps run, and any exception of theirs ends the same way
HeuristicExecute ==
    /\ descPc = "start"
    /\ desc_mode = "heuristic"
    /\ IF ~labels_exist
       THEN desc_result' = WrapInJsonResponseError(HTTPException404)
       ELSE \/ desc_result' = ReturnedPath
            \/ desc_result' = WrapInJsonResponseError(UnexpectedError)
    /\ descPc' = "done"
    /\ UNCHANGED <<desc_mode, labels_exist, desc_components, max_concurrent, semaphore,
                   task, call_failed, external_calls, answer, description, raised_by,
                   detailed_components>>
    /\ UNCHANGED nonDescVars

DescNext ==
    \/ DescStart
    \/ \E t \in DOMAIN task : TaskAcquire(t)
    \/ \E t \in DOMAIN task : TaskClip(t)
    \/ \E t \in DOMAIN task : TaskCall(t)
    \/ \E t \in DOMAIN task : TaskReturn(t)
    \/ \E t \in DOMAIN task : TaskAnswer(t)
    \/ DescFinish
    \/ HeuristicExecute

(***************************************************************************)
(* Claims about the description usecases.                                  *)
(***************************************************************************)
\* C17: during DescriptionGenerationUsecase.execute, under every
\* interleaving of the per-component tasks, the number of component analyses
\* that are inside the limiter at the same time never exceeds max_concurrent.
C17_LimiterBound ==
    TasksRunning =>
        /\ Cardinality(InLimiter) <= max_concurrent
        /\ Cardinality(InLimiter) + semaphore = max_concurrent

\* the limiter is full and a further task is kept waiting
C17_Witness ==
    /\ descPc = "gathering"
    /\ Cardinality(InLimiter) = max_concurrent
    /\ \E t \in DOMAIN task : task[t] = "calling"
    /\ \E t \in DOMAIN task : task[t] = "ready"

\* C19: whenever a call to the description capability fails during the
\* analysis of a component, DescriptionGenerationUsecase.execute raises a
\* JsonResponseError instead of returning a description file path.
C19_CallFailureSurfaced ==
    (/\ descPc = "done"
     /\ desc_mode = "claude"
     /\ \E t \in DOMAIN call_failed : call_failed[t]) =>
        desc_result.kind = "JsonResponseError"

\* C20: when the labels file is missing, the description stage (either
\* usecase) fails at once with an error whose status is 404, without calling
\* the description capability.
C20_MissingLabelsNotFound ==
    (descPc = "done" /\ ~labels_exist) =>
        /\ desc_result.kind \in {"JsonResponseError", "HTTPException"}
        /\ desc_result.status = 404
        /\ external_calls = 0

NotJson(text) == text # NoAnswer /\ ~json_loads(CleanText(text)).ok

\* C22: when the capability's answer for a component is not valid JSON, that
\* component's description is the default record {type, styles:
\* {colorPalette, typography, spacing, layout}, content, media: {images,
\* icons}, children}, the answer does not end execute, and when execute
\* returns every component has been processed and the file has one entry per
\* component, each holding that component's description.
C22_InvalidJsonGivesDefault ==
    /\ \A t \in DOMAIN answer :
           NotJson(answer[t]) =>
               /\ task[t] = "done"
               /\ raised_by # t
               /\ desc_result # WrapInJsonResponseError(UnexpectedError) \/ raised_by # 0
               /\ description[t].kind = "default"
               /\ description[t].type = desc_components[t]
               /\ description[t].keys = {"type", "styles", "content", "media", "children"}
               /\ description[t].styles = {"colorPalette", "typography", "spacing", "layout"}
               /\ description[t].media = {"images", "icons"}
    /\ (descPc = "done" /\ desc_mode = "claude" /\ labels_exist /\ raised_by = 0) =>
           /\ desc_result = ReturnedPath
           /\ \A t \in DOMAIN task : task[t] = "done"
           /\ DOMAIN detailed_components = DOMAIN desc_components
           /\ \A t \in DOMAIN task : detailed_components[t] = description[t]

\* execute has returned for three components: one answered with text that
\* is not JSON, one with an object, one is an image
C22_Witness ==
    /\ descPc = "done"
    /\ desc_result = ReturnedPath
    /\ \E t \in DOMAIN answer :
           NotJson(answer[t]) /\ detailed_components[t].kind = "default"
    /\ \E t \in DOMAIN answer : detailed_components[t].kind = "parsed"
    /\ \E t \in DOMAIN answer : detailed_components[t].kind = "list"

\* C28: provided every component analysis terminates, every component
\* eventually acquires a limiter slot and is analysed, every slot is given
\* back when its analysis ends, also when it fails or raises, and the gather
\* eventually completes, so that execute ends; no component waits forever.
C28_EveryComponentAnalysed ==
    (descPc = "gathering" \/ \E t \in DOMAIN task : task[t] # "done") ~>
        (/\ descPc = "done"
         /\ semaphore = max_concurrent
         /\ \A t \in DOMAIN task : task[t] = "done")

\* a component waits for a slot while the only slot is held by a component
\* whose call will fail
C28_Witness ==
    /\ descPc = "gathering"
    /\ max_concurrent = 1
    /\ semaphore = 0
    /\ \E t \in DOMAIN task : task[t] = "ready"
    /\ \E t \in DOMAIN task : task[t] = "calling"

(***************************************************************************)
(* convert_controller: ConvertController.convert_image runs                *)
(* SingleImageUsecase.execute once per section image, concurrently, on the *)
(* one usecase object of the request.  A write is recorded with the        *)
(* section that made it and its target: a file under uploads/<request_id>  *)
(* or an attribute of an object.                                            *)
(***************************************************************************)
\* a file named after the section image: <where>/<image stem><suffix>
SectionFile(where, section, suffix) ==
    [kind |-> "file", where |-> where, section |-> section, name |-> suffix]

\* a file whose name does not depend on the section image
FixedFile(where, name) ==
    [kind |-> "file", where |-> where, section |-> 0, name |-> name]

\* an attribute of an object that the request creates once
Attribute(object, name) ==
    [kind |-> "attr", where |-> object, section |-> 0, name |-> name]

\* BboxUsecase.execute: self.request_id (line 37), the usage counters of the
\* vision service (gemini_service.py 110-112), the annotated image (line 63)
\* and the labels file (line 72)
BboxTargets(section) ==
    {Attribute("BboxUsecase", "request_id"),
     Attribute("GeminiAPIService", "chunk_llm_request_count"),
     Attribute("GeminiAPIService", "chunk_total_input_tokens"),
     Attribute("GeminiAPIService", "chunk_total_output_tokens"),
     SectionFile("images/bboxes", section, ".jpg"),
     SectionFile("labels", section, ".json")}

\* HeuristicDescriptionUsecase.execute: the description file (line 54) and
\* the medialess image (line 46, written by helper.py 758)
HeuristicDescriptionTargets(section) ==
    {SectionFile("description", section, ".json"),
     FixedFile("description", "medialess.jpg")}

\* DescriptionGenerationUsecase.execute: the token totals of the helper
\* (helper.py 138-140) and of the usecase (lines 88-90), and the description
\* file (line 85)
DescriptionTargets(section) ==
    {Attribute("DescriptionHelper", "total_input_tokens"),
     Attribute("DescriptionHelper", "total_output_tokens"),
     Attribute("DescriptionHelper", "total_tokens"),
     Attribute("DescriptionGenerationUsecase", "total_input_tokens"),
     Attribute("DescriptionGenerationUsecase", "total_output_tokens"),
     Attribute("DescriptionGenerationUsecase", "total_tokens"),
     SectionFile("description", section, ".json")}

\* CodeGenerationUsecase.execute: the usage counters of the vision service
\* and the generated file (lines 84-90)
CodeGenerationTargets(section, is_multiple) ==
    {Attribute("GeminiAPIService", "chunk_llm_request_count"),
     Attribute("GeminiAPIService", "chunk_total_input_tokens"),
     Attribute("GeminiAPIService", "chunk_total_output_tokens"),
     SectionFile(IF is_multiple THEN "code_generation" ELSE "final", section,
                 "_gemini.html")}

WritesOf(section, targets) == {[by |-> section, target |-> t] : t \in targets}

\* the order of the awaits of SingleImageUsecase.execute (lines 50-61) and,
\* in heuristic mode, of HeuristicDescriptionUsecase.execute (lines 48-52)
StageOrder(heuristic) ==
    IF heuristic THEN <<"bbox", "hierarchy", "layout", "colour", "codegen">>
                 ELSE <<"bbox", "describe", "codegen">>

IndexOf(seq, x) == CHOOSE i \in DOMAIN seq : seq[i] = x

\* the statement that control reaches when a stage returns
NextStage(stage, heuristic) ==
    LET order == StageOrder(heuristic)
        i == IndexOf(order, stage)
    IN  IF i = Len(order) THEN "done" ELSE order[i + 1]

NoOutcome == [kind |-> "none"]

\* convert_image returned its result dictionary (lines 83 and 89-92)
ReturnedResult == [kind |-> "returned"]

\* raise JsonResponseError(status_code=500, ...) of lines 107-111
RaisedJsonResponseError == [kind |-> "JsonResponseError"]

\* code_dir.glob("*.html") of CombineHtmlUsecase.execute (line 54): the
\* sections whose generated file is in code_generation/
html_files ==
    {f \in image_files :
        [by |-> f, target |-> SectionFile("code_generation", f, "_gemini.html")]
            \in writes}

PipeIdle ==
    /\ image_files = {}
    /\ heuristic_mode = FALSE
    /\ pipePc = <<>>
    /\ writes = {}
    /\ stage_log = <<>>
    /\ controller_result = NoOutcome

\* convert_controller.py 51-68: one task per section image
PipeInit ==
    /\ image_files \in {1..n : n \in 1..MaxSections}
    /\ heuristic_mode \in BOOLEAN
    /\ pipePc = [f \in image_files |-> "bbox"]
    /\ writes = {}
    /\ stage_log = [f \in image_files |-> <<>>]
    /\ controller_result = NoOutcome

WrittenBy(f, target) == [by |-> f, target |-> target] \in writes

\* one await of a section's pipeline: the stage starts; it either returns,
\* having made its writes, and control goes to the next statement, or it
\* raises and the except clause of single_image_usecase.py 66-79 ends the
\* task with JsonResponseError.  A stage whose input file is missing
\* (present is false) can only raise.
RunStage(f, stage, targets, present) ==
    /\ pipePc[f] = stage
    /\ controller_result = NoOutcome
    /\ stage_log' = [stage_log EXCEPT ![f] = Append(@, stage)]
    /\ \/ /\ present
          /\ writes' = writes \cup WritesOf(f, targets)
          /\ pipePc' = [pipePc EXCEPT ![f] = NextStage(stage, heuristic_mode)]
       \/ /\ writes' = writes
          /\ pipePc' = [pipePc EXCEPT ![f] = "raised"]
    /\ UNCHANGED <<image_files, heuristic_mode, controller_result>>
    /\ UNCHANGED nonPipeVars

\* single_image_usecase.py 50.  BboxUsecase.execute (line 72) does not look
\* at what save_components_to_json returns: when both attempts to write the
\* labels file fail (bbox/helper.py 355-371 return False) it still returns
\* success
PipelineBbox(f) ==
    \E saved \in BOOLEAN :
        RunStage(f, "bbox",
                 IF saved THEN BboxTargets(f)
                 ELSE BboxTargets(f) \ {SectionFile("labels", f, ".json")},
                 TRUE)

\* single_image_usecase.py 58; description_generation_usecase.py 52-62
\* raises without the labels file
PipelineDescribe(f) ==
    RunStage(f, "describe", DescriptionTargets(f),
             WrittenBy(f, SectionFile("labels", f, ".json")))

\* heuristic_description_usecase.py 33-48: the labels file is read (the
\* usecase raises without it), then convert_json_structure
PipelineHierarchy(f) ==
    RunStage(f, "hierarchy", {}, WrittenBy(f, SectionFile("labels", f, ".json")))

\* heuristic_description_usecase.py 50: process_component_structure
PipelineLayout(f) == RunStage(f, "layout", {}, TRUE)

\* heuristic_description_usecase.py 52-59: extract_color_palettes, then the
\* description file is written
PipelineColour(f) == RunStage(f, "colour", HeuristicDescriptionTargets(f), TRUE)

\* single_image_usecase.py 61-64; code_generation_usecase.py 66-67 raises
\* without the description file
PipelineCodegen(f) ==
    RunStage(f, "codegen", CodeGenerationTargets(f, Cardinality(image_files) # 1),
             WrittenBy(f, SectionFile("description", f, ".json")))

\* convert_controller.py 68-111: gather(..., return_exceptions=True) has
\* every task's result or exception.  With several sections the results are
\* not looked at: CombineHtmlUsecase.execute raises when code_generation/
\* has no html file, and otherwise combines the files that are there (or
\* fails itself).  With one section results[0]["code"] is evaluated, which
\* raises TypeError when results[0] is an exception.  Whatever is raised
\* ends in the except clause of line 94.
ControllerFinish ==
    /\ controller_result = NoOutcome
    /\ \A f \in image_files : pipePc[f] \in {"done", "raised"}
    /\ IF Cardinality(image_files) # 1
       THEN IF html_files = {}
            THEN controller_result' = RaisedJsonResponseError
            ELSE controller_result' \in {ReturnedResult, RaisedJsonResponseError}
       ELSE IF \E f \in image_files : pipePc[f] = "raised"
            THEN controller_result' = RaisedJsonResponseError
            ELSE controller_result' = ReturnedResult
    /\ UNCHANGED <<image_files, heuristic_mode, pipePc, writes, stage_log>>
    /\ UNCHANGED nonPipeVars

PipeNext ==
    \/ \E f \in image_files : PipelineBbox(f)
    \/ \E f \in image_files : PipelineDescribe(f)
    \/ \E f \in image_files : PipelineHierarchy(f)
    \/ \E f \in image_files : PipelineLayout(f)
    \/ \E f \in image_files : PipelineColour(f)
    \/ \E f \in image_files : PipelineCodegen(f)
    \/ ControllerFinish

\* C18: when several section pipelines of one request run concurrently, no
\* two of them write the same file path and no two write the same in-memory
\* object or counter.
C18_NoSharedWrites ==
    \A a \in writes : \A b \in writes : a.by # b.by => a.target # b.target

\* C21: whenever a section's pipeline has failed, convert_image ends by
\* raising JsonResponseError, with one section and with several; it never
\* returns a success result after a section pipeline has failed.
C21_SectionFailureRaises ==
    (/\ controller_result # NoOutcome
     /\ \E f \in image_files : pipePc[f] = "raised") =>
        controller_result = RaisedJsonResponseError

IsPrefixOf(a, b) == Len(a) <= Len(b) /\ \A i \in DOMAIN a : a[i] = b[i]

\* C27: for each section the stages start in the order bounding boxes,
\* description (in heuristic mode hierarchy, layout, colour), code
\* generation; a stage starts only when the one before it has returned, the
\* labels file being written before the description starts and the
\* description file before code generation starts; code generation is never
\* started for a section whose earlier stage raised.
C27_StagesInOrder ==
    \A f \in image_files :
        /\ IsPrefixOf(stage_log[f], StageOrder(heuristic_mode))
        /\ Len(stage_log[f]) >= 2 => WrittenBy(f, SectionFile("labels", f, ".json"))
        /\ (Len(stage_log[f]) >= 1 /\ stage_log[f][Len(stage_log[f])] = "codegen") =>
               WrittenBy(f, SectionFile("description", f, ".json"))
        /\ (pipePc[f] = "raised" /\ stage_log[f][Len(stage_log[f])] # "codegen") =>
               \A i \in DOMAIN stage_log[f] : stage_log[f][i] # "codegen"

(***************************************************************************)
(* Claims about parse_gemini_response.                                     *)
(***************************************************************************)
\* one component per object of the response, coordinates preserved
ExpectedComponents(objs) ==
    [j \in 1..Len(objs) |->
        [label |-> objs[j].label, tenths |-> TRUE,
         box |-> <<[n |-> objs[j].box_2d[2], m |-> 0], [n |-> objs[j].box_2d[1], m |-> 0],
                   [n |-> objs[j].box_2d[4], m |-> 0], [n |-> objs[j].box_2d[3], m |-> 0]>>]]

\* C9: for a response that is a JSON array of well-formed {label, box_2d}
\* objects made invalid only by a trailing comma before the closing bracket,
\* parse_gemini_response returns one component per object with the four
\* coordinates preserved, recovered by the second-tier cleanup.
C9_TrailingCommaRecovered ==
    (/\ parsePc = "done"
     /\ ~use_heuristic
     /\ response_form.wrap = "bare"
     /\ response_form.trailing # "none") =>
        /\ parse_outcome = "returned"
        /\ parse_tier = 2
        /\ parse_result = ExpectedComponents(response_objs)

\* C10: when the first two tiers fail and the text contains k >= 1
\* well-formed {"label": ..., "box_2d": [...]} objects, the third tier
\* extracts them and the function returns those k components.
C10_ThirdTierExtracts ==
    (/\ parsePc = "done"
     /\ ~use_heuristic
     /\ parse_tier = 3
     /\ Len(response_objs) >= 1) =>
        /\ parse_outcome = "returned"
        /\ Len(parse_result) = Len(response_objs)
        /\ \A j \in 1..Len(parse_result) :
               parse_result[j].label = response_objs[j].label

\* C11: for every response text (empty, non-JSON, malformed JSON, valid JSON
\* of any shape such as a number, null or an object) both parsers return a
\* list and never raise.
C11_ParsersReturnListNeverRaise ==
    parsePc = "done" =>
        /\ parse_outcome = "returned"
        /\ use_heuristic => heuristic_result.t = "arr"

\* a number n.m of the response is less than another: integer parts first,
\* then the fractions m / 10^digits
RECURSIVE PowerOfTen(_)
PowerOfTen(m) == IF m < 10 THEN 10 ELSE 10 * PowerOfTen(m \div 10)

NumberLess(a, b) ==
    \/ a.n < b.n
    \/ a.n = b.n /\ a.m * PowerOfTen(b.m) < b.m * PowerOfTen(a.m)

\* the bbox of a heuristic component is [y_min, x_min, y_max, x_max]
HeuristicBoxValid(item) ==
    (item.t = "obj" /\ HasKey(item, "bbox")) =>
        /\ Member(item, "bbox").t = "arr"
        /\ Len(Member(item, "bbox").items) = 4
        /\ NumberLess(Number(Member(item, "bbox").items[1]),
                      Number(Member(item, "bbox").items[3]))
        /\ NumberLess(Number(Member(item, "bbox").items[2]),
                      Number(Member(item, "bbox").items[4]))

\* C12: every component that the bounding-box parsers hand to the rest of
\* the pipeline has a validated box: x_min < x_max and y_min < y_max.
C12_ReturnedBoxesValidated ==
    (parsePc = "done" /\ parse_outcome = "returned") =>
        /\ \A j \in 1..Len(parse_result) :
               /\ Len(parse_result[j].box) = 4
               /\ NumberLess(parse_result[j].box[1], parse_result[j].box[3])
               /\ NumberLess(parse_result[j].box[2], parse_result[j].box[4])
        /\ \A j \in 1..Len(heuristic_result.items) :
               HeuristicBoxValid(heuristic_result.items[j])

\* C15: after convert_json_structure, process_component_structure and
\* extract_color_palettes have run, every non-media component at every depth
\* of the tree whose pixel region is not empty has an extracted colorPalette
\* (at most 5 hex colours) in its own styles record.
C15_EveryComponentHasPalette ==
    hierPc = "coloured" =>
        \A c \in DOMAIN hierarchy.nodes :
            (/\ ~IsMediaLabel(hierarchy.nodes[c].type)
             /\ HasPixelRegion(hierarchy.nodes[c].coordinates, ImagePx, ImagePx)) =>
                /\ hierarchy.nodes[c].styles.present
                /\ hierarchy.nodes[c].styles.colorPalette \in Palettes

(***************************************************************************)
(* Claims about _process_component and _determine_positioning.             *)
(***************************************************************************)
\* node c was processed as a child of the root p
ProcessedChild(c, p) ==
    /\ hierPc = "processed"
    /\ p \in Range(hierarchy.roots)
    /\ c \in Range(hierarchy.nodes[p].children)

\* the boxes of c and of some other child of p intersect on both axes,
\* strictly
OverlapsSibling(c, p) ==
    \E q \in Range(hierarchy.nodes[p].children) :
        /\ q # c
        /\ hierarchy.nodes[c].coordinates.x1 < hierarchy.nodes[q].coordinates.x2
        /\ hierarchy.nodes[q].coordinates.x1 < hierarchy.nodes[c].coordinates.x2
        /\ hierarchy.nodes[c].coordinates.y1 < hierarchy.nodes[q].coordinates.y2
        /\ hierarchy.nodes[q].coordinates.y1 < hierarchy.nodes[c].coordinates.y2

OverlayType(c) ==
    hierarchy.nodes[c].type \in
        {"modal", "tooltip", "dropdown", "popup", "overlay", "dialog", "menu"}

ContainerType(p) ==
    hierarchy.nodes[p].type \in
        {"card", "container", "section", "article", "main", "div", "header", "footer"}

\* C13: _determine_positioning returns absolute if and only if (a) the
\* component strictly overlaps a sibling, or (b) its type is an overlay type,
\* or (c) its parent's type is a container type and the parent has more than
\* one child; otherwise relative; a root with no parent always gets relative.
C13_PositioningRule ==
    hierPc = "processed" =>
        /\ \A r \in Range(hierarchy.roots) :
               hierarchy.nodes[r].layout.positioning = "relative"
        /\ \A p \in Range(hierarchy.roots) :
               \A c \in Range(hierarchy.nodes[p].children) :
                   /\ hierarchy.nodes[c].layout.positioning \in {"absolute", "relative"}
                   /\ hierarchy.nodes[c].layout.positioning = "absolute" <=>
                          \/ OverlapsSibling(c, p)
                          \/ OverlayType(c)
                          \/ ContainerType(p) /\ Len(hierarchy.nodes[p].children) > 1

\* an overlay child alone under a non-container parent is absolute, and a
\* child that only shares an edge with its sibling under a non-container
\* parent is relative
C13_Witness ==
    /\ \E c \in DOMAIN hierarchy.nodes :
           /\ ProcessedChild(c, 1)
           /\ ~ContainerType(1)
           /\ Len(hierarchy.nodes[1].children) = 2
           /\ ~OverlapsSibling(c, 1)
           /\ OverlayType(c)
           /\ hierarchy.nodes[c].layout.positioning = "absolute"
    /\ \E c \in DOMAIN hierarchy.nodes :
           /\ ProcessedChild(c, 1)
           /\ ~OverlapsSibling(c, 1)
           /\ ~OverlayType(c)
           /\ hierarchy.nodes[c].layout.positioning = "relative"

\* C14 (as stated): the single child of a div parent that overlaps no sibling
\* is positioned relative, whatever the component's own type is.
C14_SingleChildOfDivRelative ==
    \A c \in DOMAIN hierarchy.nodes :
        (/\ ProcessedChild(c, 1)
         /\ hierarchy.nodes[1].type = "div"
         /\ Len(hierarchy.nodes[1].children) = 1) =>
            hierarchy.nodes[c].layout.positioning = "relative"

\* C14 (amended): the single child of a div parent that overlaps no sibling
\* is positioned relative unless its own type is an overlay type (modal,
\* tooltip, dropdown, popup, overlay, dialog, menu), which is absolute.
C14_SingleChildOfDivRelativeUnlessOverlay ==
    \A c \in DOMAIN hierarchy.nodes :
        (/\ ProcessedChild(c, 1)
         /\ hierarchy.nodes[1].type = "div"
         /\ Len(hierarchy.nodes[1].children) = 1) =>
            hierarchy.nodes[c].layout.positioning =
                IF OverlayType(c) THEN "absolute" ELSE "relative"

C14_Witness ==
    \E c \in DOMAIN hierarchy.nodes :
        /\ ProcessedChild(c, 1)
        /\ hierarchy.nodes[1].type = "div"
        /\ Len(hierarchy.nodes[1].children) = 1
        /\ hierarchy.nodes[c].type = "text"
        /\ hierarchy.nodes[c].layout.positioning = "relative"

\* C16: for a component whose coordinates equal its parent's coordinates
\* (parent of non-zero width and height), _process_component records
\* relative-to-parent percentages top = left = right = bottom = 0 and width
\* and height percentages of 100 (in hundredths of a percent: 10000).
C16_SpanningChildPercentages ==
    \A c \in DOMAIN hierarchy.nodes :
        (/\ ProcessedChild(c, 1)
         /\ hierarchy.nodes[c].coordinates = hierarchy.nodes[1].coordinates
         /\ hierarchy.nodes[1].coordinates.x2 # hierarchy.nodes[1].coordinates.x1
         /\ hierarchy.nodes[1].coordinates.y2 # hierarchy.nodes[1].coordinates.y1) =>
            /\ hierarchy.nodes[c].layout.position_parent =
                   [top |-> 0, right |-> 0, bottom |-> 0, left |-> 0]
            /\ hierarchy.nodes[c].layout.width_percent = 10000
            /\ hierarchy.nodes[c].layout.height_percent = 10000

C16_Witness ==
    \E c \in DOMAIN hierarchy.nodes :
        /\ ProcessedChild(c, 1)
        /\ hierarchy.nodes[c].coordinates = hierarchy.nodes[1].coordinates
        /\ hierarchy.nodes[1].coordinates.x2 > hierarchy.nodes[1].coordinates.x1
        /\ hierarchy.nodes[1].coordinates.y2 > hierarchy.nodes[1].coordinates.y1
        /\ hierarchy.nodes[c].layout.width_percent = 10000
        /\ hierarchy.nodes[c].layout.position_parent.top = 0

(***************************************************************************)
(* Specifications.                                                         *)
(***************************************************************************)
InitSeg == SegInit /\ FiltIdle /\ HierIdle /\ ParseIdle /\ DescIdle /\ PipeIdle
    /\ UsecaseIdle
    /\ BorderIdle

SpecSeg == InitSeg /\ [][SegNext]_vars

InitFilter == FiltInit /\ SegIdle /\ HierIdle /\ ParseIdle /\ DescIdle /\ PipeIdle
    /\ UsecaseIdle
    /\ BorderIdle

SpecFilter == InitFilter /\ [][FiltNext]_vars

InitHier == HierInit /\ SegIdle /\ FiltIdle /\ ParseIdle /\ DescIdle /\ PipeIdle
    /\ UsecaseIdle
    /\ BorderIdle

SpecHier == InitHier /\ [][HierNext]_vars

InitLayout == LayoutInit /\ SegIdle /\ FiltIdle /\ ParseIdle /\ DescIdle /\ PipeIdle
    /\ UsecaseIdle
    /\ BorderIdle

SpecLayout == InitLayout /\ [][LayoutNext]_vars

InitDesc == DescInit /\ SegIdle /\ FiltIdle /\ HierIdle /\ ParseIdle /\ PipeIdle
    /\ UsecaseIdle
    /\ BorderIdle

SpecDesc == InitDesc /\ [][DescNext]_vars

\* the event loop runs every task that can run; every call to the capability
\* ends
DescFairness ==
    /\ WF_vars(DescStart)
    /\ WF_vars(HeuristicExecute)
    /\ WF_vars(DescFinish)
    /\ \A t \in 1..MaxComponents :
           /\ WF_vars(TaskAcquire(t))
           /\ WF_vars(TaskClip(t))
           /\ WF_vars(TaskCall(t))
           /\ WF_vars(TaskReturn(t) \/ TaskAnswer(t))

SpecDescLive == InitDesc /\ [][DescNext]_vars /\ DescFairness

InitBorder ==
    BorderInit /\ SegIdle /\ FiltIdle /\ HierIdle /\ ParseIdle /\ DescIdle /\ PipeIdle
    /\ UsecaseIdle

SpecBorder == InitBorder /\ [][BorderNext]_vars

InitUsecase ==
    UsecaseInit /\ SegIdle /\ FiltIdle /\ HierIdle /\ ParseIdle /\ DescIdle /\ PipeIdle
    /\ BorderIdle

SpecUsecase == InitUsecase /\ [][UsecaseNext]_vars

InitPipe == PipeInit /\ SegIdle /\ FiltIdle /\ HierIdle /\ ParseIdle /\ DescIdle
    /\ UsecaseIdle
    /\ BorderIdle

SpecPipe == InitPipe /\ [][PipeNext]_vars

InitParse == ParseInit /\ SegIdle /\ FiltIdle /\ HierIdle /\ DescIdle /\ PipeIdle
    /\ UsecaseIdle
    /\ BorderIdle

SpecParse == InitParse /\ [][ParseNext]_vars

====
